---------------------------- MODULE Spec2Model ----------------------------
(***************************************************************************)
(* BerryConnect: the BCP wire protocol (src/PiZero/bcp_protocol.py) and    *)
(* the connectivity arbiter (src/PiZero/connectivity_manager.py).          *)
(*                                                                         *)
(* Cryptography is modelled symbolically.  A private key is a fresh        *)
(* integer, its public key is the same integer, the ECDH secret of two     *)
(* key pairs is the set of the two private keys, and HKDF is injective, so *)
(* two derived AES keys are equal exactly when they come from the same     *)
(* two key pairs.  An AES-GCM ciphertext remembers the key, nonce,         *)
(* associated data and plaintext it was sealed with; it opens only under   *)
(* exactly these and only when no bit of it was changed.                   *)
(***************************************************************************)
EXTENDS Integers, Sequences, FiniteSets, TLC

(***************************************************************************)
(* Bounds of the model.                                                    *)
(***************************************************************************)
\* key pairs generated in one behaviour of SpecKex
MaxKeyGens == 3
\* encode_* calls in one behaviour of Spec and SpecTamper
MaxEncodes == 1
\* key-exchange calls whose order SpecKex records in steps
MaxSteps == 4
\* monitor workers one ConnectivityManager creates in one behaviour
MaxWorkers == 2
\* check_connectivity calls the workers make in one behaviour
MaxTicks == 3
\* start_monitoring, stop_monitoring and force_mode calls in one behaviour
MaxCalls == 3
\* connect, disconnect and send_* calls in one behaviour of SpecCli
MaxCliCalls == 4
\* start_monitoring, stop_monitoring and force_mode calls in one behaviour of SpecModes
MaxModeCalls == 2
\* encode_* calls in one behaviour of SpecReplay
MaxReplayEncodes == 2
\* telemetry messages the MQTT loop publishes in one behaviour of SpecAgent
MaxPublishes == 2
\* connect and send_* calls the agent makes in one behaviour of SpecAgent
MaxAgentCalls == 5
\* calls made by the agents and the callbacks in one behaviour of SpecSrv
MaxSrvCalls == 5
\* check_connectivity calls the workers make in one behaviour of SpecArb
MaxArbTicks == 2
\* start_monitoring and stop_monitoring calls in one behaviour of SpecArbFair
MaxFairCalls == 3
\* key pairs generated in one behaviour of SpecLife
MaxLifeKeyGens == 3
\* encode_* calls one session makes in a row in SpecSeq: sequence_num wraps
MaxSeqEncodes == 257
\* encode_* calls made in SpecNonce: the nonce counter wraps
MaxNonceEncodes == 3
\* longest alert text, in characters, before an optional multi-byte one
MaxMsgChars == 12

(***************************************************************************)
(* Program constants.                                                      *)
(***************************************************************************)
\* BCPVersion.CURRENT
CURRENT == 1
\* len(packet) < 69: 4 header + 65 public key
KexLen == 69
\* message.encode('utf-8')[:11]
MaxAlertBytes == 11
\* AES-GCM authentication tag appended to the ciphertext
TagLen == 16
\* header (4) + nonce (12): the shortest encrypted packet decode_packet accepts
MinEncLen == 16
\* plaintext header: version, type, sequence, flags
HdrLen == 4
\* flags of an encrypted packet (bit 2)
FlagEncrypted == 4

TELEMETRY == 1
ALERT == 2
COMMAND == 3
RESPONSE == 4
HEARTBEAT == 5
KEY_EXCHANGE == 6

MessageType == {TELEMETRY, ALERT, COMMAND, RESPONSE, HEARTBEAT, KEY_EXCHANGE}
AlertCode == {1, 2, 3, 4, 5, 254, 255}
CommandCode == {1, 2, 3}
StatusCode == {0, 1, 2}

(***************************************************************************)
(* Error kinds: one per raise site of bcp_protocol.py (all are ValueError  *)
(* in the code, told apart by their message) plus struct.error.            *)
(***************************************************************************)
MalformedFrame == "MalformedFrame"
UnsupportedVersion == "UnsupportedVersion"
UnknownMessageType == "UnknownMessageType"
KeyNotEstablished == "KeyNotEstablished"
AuthenticationFailure == "AuthenticationFailure"
HandshakeDataInvalid == "HandshakeDataInvalid"
KeypairNotGenerated == "KeypairNotGenerated"
PayloadTooShort == "PayloadTooShort"
UnrecognizedCode == "UnrecognizedCode"
StructError == "StructError"

NoVal == [type |-> "none"]
\* a call that raised e, leaving the object in state st
Raise(st, e) == [st |-> st, ok |-> FALSE, err |-> e, val |-> NoVal]
\* a call that returned v, leaving the object in state st
Return(st, v) == [st |-> st, ok |-> TRUE, err |-> "", val |-> v]

(***************************************************************************)
(* Bytes, struct.pack / struct.unpack (big-endian, no padding), UTF-8.     *)
(***************************************************************************)
RECURSIVE Pow256(_)
Pow256(w) == IF w = 0 THEN 1 ELSE 256 * Pow256(w - 1)

\* v.to_bytes(w, 'big')
ToBytes(v, w) == [i \in 1..w |-> (v \div Pow256(w - i)) % 256]

RECURSIVE FromBytes(_)
FromBytes(b) ==
    IF b = <<>> THEN 0
    ELSE 256 * FromBytes(SubSeq(b, 1, Len(b) - 1)) + b[Len(b)]

RECURSIVE calcsize(_)
calcsize(fmt) == IF fmt = <<>> THEN 0 ELSE Head(fmt) + calcsize(Tail(fmt))

RECURSIVE PackFields(_, _)
PackFields(fmt, vals) ==
    IF fmt = <<>> THEN <<>>
    ELSE ToBytes(Head(vals), Head(fmt)) \o PackFields(Tail(fmt), Tail(vals))

\* struct.pack: struct.error when a value does not fit its field.  The values
\* of the model are below 2^31, so every non-negative one fits 4 bytes.
pack(fmt, vals) ==
    IF \E i \in 1..Len(fmt) :
          vals[i] < 0 \/ (fmt[i] < 4 /\ vals[i] >= Pow256(fmt[i]))
    THEN Raise(<<>>, StructError)
    ELSE Return(<<>>, PackFields(fmt, vals))

RECURSIVE UnpackFields(_, _)
UnpackFields(fmt, buf) ==
    IF fmt = <<>> THEN <<>>
    ELSE <<FromBytes(SubSeq(buf, 1, Head(fmt)))>>
         \o UnpackFields(Tail(fmt), SubSeq(buf, Head(fmt) + 1, Len(buf)))

\* struct.unpack: struct.error unless the buffer has exactly calcsize(fmt) bytes
unpack(fmt, buf) ==
    IF Len(buf) # calcsize(fmt)
    THEN Raise(<<>>, StructError)
    ELSE Return(<<>>, UnpackFields(fmt, buf))

\* buf[:n]
Prefix(buf, n) == SubSeq(buf, 1, IF n < Len(buf) THEN n ELSE Len(buf))
\* buf[n:]
Suffix(buf, n) == SubSeq(buf, n + 1, Len(buf))

\* one code point as UTF-8 (code points below 0x10000)
Utf8Char(c) ==
    IF c < 128 THEN <<c>>
    ELSE IF c < 2048 THEN <<192 + (c \div 64), 128 + (c % 64)>>
    ELSE <<224 + (c \div 4096), 128 + ((c \div 64) % 64), 128 + (c % 64)>>

RECURSIVE Utf8Encode(_)
\* str.encode('utf-8'); a string is a sequence of code points
Utf8Encode(s) ==
    IF s = <<>> THEN <<>> ELSE Utf8Char(Head(s)) \o Utf8Encode(Tail(s))

IsCont(b) == b >= 128 /\ b <= 191

RECURSIVE Utf8DecodeIgnore(_)
\* bytes.decode('utf-8', errors='ignore'): bytes that start no complete,
\* well-formed sequence are dropped
Utf8DecodeIgnore(b) ==
    IF b = <<>> THEN <<>>
    ELSE IF b[1] < 128 THEN <<b[1]>> \o Utf8DecodeIgnore(Tail(b))
    ELSE IF /\ b[1] >= 194 /\ b[1] <= 223
            /\ Len(b) >= 2 /\ IsCont(b[2])
         THEN <<(b[1] - 192) * 64 + (b[2] - 128)>>
              \o Utf8DecodeIgnore(Suffix(b, 2))
    ELSE IF /\ b[1] >= 224 /\ b[1] <= 239
            /\ Len(b) >= 3 /\ IsCont(b[2]) /\ IsCont(b[3])
            /\ (b[1] = 224 => b[2] >= 160)
            /\ (b[1] = 237 => b[2] <= 159)
         THEN <<(b[1] - 224) * 4096 + (b[2] - 128) * 64 + (b[3] - 128)>>
              \o Utf8DecodeIgnore(Suffix(b, 3))
    ELSE Utf8DecodeIgnore(Tail(b))

(***************************************************************************)
(* Packets.  A packet is its first (up to 4) header bytes, its length in   *)
(* bytes, and what follows the header:                                     *)
(*   t = "pub"     a 65-byte X9.62 point, the public key of pub            *)
(*   t = "sealed"  12 nonce bytes, then the AES-GCM output ct (which       *)
(*                 remembers what it was sealed with) of Len(ct.pt) bytes  *)
(*                 and the 16-byte tag; flip # 0 is the position of a bit  *)
(*                 of ciphertext or tag that was inverted in transit       *)
(*   t = "junk"    bytes that are neither                                  *)
(* A packet shorter than its content is that content cut at len bytes.     *)
(***************************************************************************)
NoCt == [key |-> {}, nonce |-> <<>>, aad |-> <<>>, pt |-> <<>>]
NoBody == [t |-> "junk", pub |-> 0, nonce |-> <<>>, ct |-> NoCt, flip |-> 0]
PubBody(k) == [NoBody EXCEPT !.t = "pub", !.pub = k]
SealedBody(nonce, ct) == [NoBody EXCEPT !.t = "sealed", !.nonce = nonce, !.ct = ct]

\* bytes of a body when nothing is cut
BodyLen(body) ==
    IF body.t = "pub" THEN KexLen - HdrLen
    ELSE IF body.t = "sealed" THEN (MinEncLen - HdrLen) + Len(body.ct.pt) + TagLen
    ELSE 0

Packet(hdr, body) == [hdr |-> hdr, len |-> HdrLen + BodyLen(body), body |-> body]
NoPacket == [hdr |-> <<>>, len |-> 0, body |-> NoBody]

\* packet[4:69] as process_key_exchange hands it to derive_shared_key:
\* a point only when all 65 bytes of a public key are there
KeySlice(packet) ==
    IF packet.body.t = "pub" /\ packet.len >= KexLen
    THEN [point |-> TRUE, pub |-> packet.body.pub]
    ELSE [point |-> FALSE, pub |-> 0]

\* packet[4:16]
NonceSlice(packet) ==
    IF packet.body.t = "sealed" THEN packet.body.nonce ELSE <<>>

\* packet[16:]: the sealed output, whether all of it is there, the flipped bit
CipherSlice(packet) ==
    IF packet.body.t = "sealed"
    THEN [ct |-> packet.body.ct,
          whole |-> packet.len = HdrLen + BodyLen(packet.body),
          flip |-> packet.body.flip]
    ELSE [ct |-> NoCt, whole |-> FALSE, flip |-> 0]

(***************************************************************************)
(* BCPEncryption                                                           *)
(***************************************************************************)
\* a 32-bit unsigned integer as its two 16-bit halves, high half first
U32(hi, lo) == <<hi, lo>>
\* (c + 1) % (2**32)
Inc32(c) ==
    IF c[2] + 1 < 65536 THEN U32(c[1], c[2] + 1)
    ELSE U32((c[1] + 1) % 65536, 0)

\* BCPEncryption.__init__ ; {} is aes_key None, 0 is private_key None
BCPEncryption ==
    [aes_key |-> {}, private_key |-> 0, public_key |-> 0, counter |-> U32(0, 0)]

\* k: the private key ec.generate_private_key draws
generate_keypair(enc, k) ==
    Return([enc EXCEPT !.private_key = k, !.public_key = k], PubBody(k))

derive_shared_key(enc, peer_public_bytes) ==
    IF enc.private_key = 0 THEN Raise(enc, KeypairNotGenerated)
    ELSE IF ~peer_public_bytes.point THEN Raise(enc, HandshakeDataInvalid)
    ELSE Return([enc EXCEPT !.aes_key = {enc.private_key, peer_public_bytes.pub}],
                NoVal)

\* now: int(time.time()); rnd: os.urandom(4)
generate_nonce(enc, now, rnd) ==
    LET c == Inc32(enc.counter)
    IN  Return([enc EXCEPT !.counter = c], <<now, c, rnd>>)

encrypt(enc, payload, associated_data, now, rnd) ==
    IF enc.aes_key = {} THEN Raise(enc, KeyNotEstablished)
    ELSE LET n == generate_nonce(enc, now, rnd)
         IN  Return(n.st,
                    [nonce |-> n.val,
                     ct |-> [key |-> enc.aes_key, nonce |-> n.val,
                             aad |-> associated_data, pt |-> payload]])

\* TagValid when no tag is verified over ciphertext and tag bits
MutTagValidNoFlip(key, nonce, ciphertext, associated_data) ==
    /\ ciphertext.whole
    /\ ciphertext.ct.key = key
    /\ ciphertext.ct.nonce = nonce
    /\ ciphertext.ct.aad = associated_data

\* AESGCM.decrypt opens exactly what was sealed under the same key, nonce and
\* associated data, with every bit of ciphertext and tag as produced
TagValid(key, nonce, ciphertext, associated_data) ==
    /\ ciphertext.whole
    /\ ciphertext.flip = 0
    /\ ciphertext.ct.key = key
    /\ ciphertext.ct.nonce = nonce
    /\ ciphertext.ct.aad = associated_data

\* decrypt when it does not ask whether a key was derived
Mut_decrypt_NoKeyCheck(enc, nonce, ciphertext, associated_data) ==
    IF TagValid(enc.aes_key, nonce, ciphertext, associated_data)
    THEN Return(enc, ciphertext.ct.pt)
    ELSE Raise(enc, AuthenticationFailure)

\* decrypt when it advances the nonce counter as encrypt does
Mut_decrypt_Advances(enc, nonce, ciphertext, associated_data) ==
    IF enc.aes_key = {} THEN Raise(enc, KeyNotEstablished)
    ELSE IF TagValid(enc.aes_key, nonce, ciphertext, associated_data)
         THEN Return([enc EXCEPT !.counter = Inc32(@)], ciphertext.ct.pt)
         ELSE Raise([enc EXCEPT !.counter = Inc32(@)], AuthenticationFailure)

decrypt(enc, nonce, ciphertext, associated_data) ==
    IF enc.aes_key = {} THEN Raise(enc, KeyNotEstablished)
    ELSE IF TagValid(enc.aes_key, nonce, ciphertext, associated_data)
         THEN Return(enc, ciphertext.ct.pt)
         ELSE Raise(enc, AuthenticationFailure)

(***************************************************************************)
(* BCPProtocol                                                             *)
(***************************************************************************)
\* BCPProtocol.__init__
BCPProtocol == [encryption |-> BCPEncryption, sequence_num |-> 0]

\* create_key_exchange_packet when it leaves sequence_num alone
Mut_create_key_exchange_packet_NoBump(self, k) ==
    LET g == generate_keypair(self.encryption, k)
        header == <<CURRENT, KEY_EXCHANGE, self.sequence_num, 0>>
    IN  Return([encryption |-> g.st, sequence_num |-> self.sequence_num],
               Packet(header, g.val))

create_key_exchange_packet(self, k) ==
    LET g == generate_keypair(self.encryption, k)
        header == <<CURRENT, KEY_EXCHANGE, self.sequence_num, 0>>
    IN  Return([encryption |-> g.st,
                sequence_num |-> (self.sequence_num + 1) % 256],
               Packet(header, g.val))

\* process_key_exchange when a failure forgets the key derived before
Mut_process_key_exchange_Forgets(self, packet) ==
    IF packet.len < KexLen
    THEN Raise([self EXCEPT !.encryption.aes_key = {}], HandshakeDataInvalid)
    ELSE LET d == derive_shared_key(self.encryption, KeySlice(packet))
         IN  IF d.ok THEN Return([self EXCEPT !.encryption = d.st], NoVal)
             ELSE Raise([self EXCEPT !.encryption.aes_key = {}], d.err)

\* process_key_exchange when only the header is required to be there
Mut_process_key_exchange_HeaderOnly(self, packet) ==
    IF packet.len < HdrLen THEN Raise(self, HandshakeDataInvalid)
    ELSE LET d == derive_shared_key(self.encryption, KeySlice(packet))
         IN  IF d.ok THEN Return([self EXCEPT !.encryption = d.st], NoVal)
             ELSE Raise(self, d.err)

process_key_exchange(self, packet) ==
    IF packet.len < KexLen THEN Raise(self, HandshakeDataInvalid)
    ELSE LET d == derive_shared_key(self.encryption, KeySlice(packet))
         IN  IF d.ok THEN Return([self EXCEPT !.encryption = d.st], NoVal)
             ELSE Raise(self, d.err)

\* _encrypt_and_pack when sequence_num is incremented without % 256
Mut_encrypt_and_pack_NoWrap(self, msg_type, payload, now, rnd) ==
    LET header == <<CURRENT, msg_type, self.sequence_num, FlagEncrypted>>
        bumped == [self EXCEPT !.sequence_num = self.sequence_num + 1]
        e == encrypt(self.encryption, payload, header, now, rnd)
    IN  IF e.ok
        THEN Return([bumped EXCEPT !.encryption = e.st],
                    Packet(header, SealedBody(e.val.nonce, e.val.ct)))
        ELSE Raise(bumped, e.err)

_encrypt_and_pack(self, msg_type, payload, now, rnd) ==
    LET header == <<CURRENT, msg_type, self.sequence_num, FlagEncrypted>>
        bumped == [self EXCEPT !.sequence_num = (self.sequence_num + 1) % 256]
        e == encrypt(self.encryption, payload, header, now, rnd)
    IN  IF e.ok
        THEN Return([bumped EXCEPT !.encryption = e.st],
                    Packet(header, SealedBody(e.val.nonce, e.val.ct)))
        ELSE Raise(bumped, e.err)

(***************************************************************************)
(* Encoding.  A float argument is held in thousandths (45.2 is 45200), so  *)
(* that int(x * 100) drops a digit; an Optional argument is <<>> for None  *)
(* and <<v>> for a value.  now is int(time.time()), rnd is os.urandom(4).  *)
(***************************************************************************)
\* struct formats as their field widths: H is 2 bytes, I is 4, B is 1
FmtHHHIII == <<2, 2, 2, 4, 4, 4>>
FmtBI == <<1, 4>>
FmtIB == <<4, 1>>
ABSENT == 65535

\* int(x * 100): truncation towards zero
IntTimes100(x) == IF x >= 0 THEN x \div 10 ELSE -((-x) \div 10)

encode_telemetry(self, cpu_percent, ram_percent, temp_c, battery_percent, uptime_seconds, now, rnd) ==
    LET p == pack(FmtHHHIII,
                  <<IntTimes100(cpu_percent),
                    IntTimes100(ram_percent),
                    IF temp_c # <<>> THEN IntTimes100(temp_c[1]) ELSE ABSENT,
                    IF battery_percent # <<>> THEN battery_percent[1] ELSE ABSENT,
                    uptime_seconds,
                    now>>)
    IN  IF p.ok THEN _encrypt_and_pack(self, TELEMETRY, p.val, now, rnd)
        ELSE Raise(self, p.err)

encode_alert(self, alert_code, message, now, rnd) ==
    LET msg_bytes == Prefix(Utf8Encode(message), MaxAlertBytes)
        p == pack(FmtBI, <<alert_code, now>>)
    IN  IF p.ok THEN _encrypt_and_pack(self, ALERT, p.val \o msg_bytes, now, rnd)
        ELSE Raise(self, p.err)

encode_heartbeat(self, status, now, rnd) ==
    LET p == pack(FmtIB, <<now, status>>)
    IN  IF p.ok THEN _encrypt_and_pack(self, HEARTBEAT, p.val, now, rnd)
        ELSE Raise(self, p.err)

encode_command(self, command_code, command_id, now, rnd) ==
    LET p == pack(FmtBI, <<command_code, command_id>>)
    IN  IF p.ok THEN _encrypt_and_pack(self, COMMAND, p.val, now, rnd)
        ELSE Raise(self, p.err)

encode_response(self, command_id, status_code, data, now, rnd) ==
    LET p == pack(FmtIB, <<command_id, status_code>>)
    IN  IF p.ok THEN _encrypt_and_pack(self, RESPONSE, p.val \o data, now, rnd)
        ELSE Raise(self, p.err)

(***************************************************************************)
(* Decoding.  A decoded percentage is held in hundredths (values[0]/100.0  *)
(* is exact in that unit).                                                 *)
(***************************************************************************)
\* len(payload) < 16 in _decode_telemetry, payload[:16]
TelemetryMin == 16
\* len(payload) < 5 in the other decoders, payload[:5]
FixedMin == 5

_decode_telemetry(payload, sequence) ==
    IF Len(payload) < TelemetryMin THEN Raise(<<>>, PayloadTooShort)
    ELSE LET u == unpack(FmtHHHIII, Prefix(payload, TelemetryMin))
         IN  IF ~u.ok THEN Raise(<<>>, u.err)
             ELSE Return(<<>>,
                    [type |-> "telemetry",
                     sequence |-> sequence,
                     cpu_percent |-> u.val[1],
                     ram_percent |-> u.val[2],
                     cpu_temp |-> IF u.val[3] # ABSENT THEN <<u.val[3]>> ELSE <<>>,
                     battery_percent |-> IF u.val[4] # ABSENT THEN <<u.val[4]>> ELSE <<>>,
                     uptime_seconds |-> u.val[5],
                     timestamp |-> u.val[6]])

_decode_alert(payload, sequence) ==
    IF Len(payload) < FixedMin THEN Raise(<<>>, PayloadTooShort)
    ELSE LET u == unpack(FmtBI, Prefix(payload, FixedMin))
         IN  IF ~u.ok THEN Raise(<<>>, u.err)
             ELSE IF u.val[1] \notin AlertCode THEN Raise(<<>>, UnrecognizedCode)
             ELSE Return(<<>>,
                    [type |-> "alert",
                     sequence |-> sequence,
                     alert_code |-> u.val[1],
                     timestamp |-> u.val[2],
                     message |-> Utf8DecodeIgnore(Suffix(payload, FixedMin))])

_decode_heartbeat(payload, sequence) ==
    IF Len(payload) < FixedMin THEN Raise(<<>>, PayloadTooShort)
    ELSE LET u == unpack(FmtIB, Prefix(payload, FixedMin))
         IN  IF ~u.ok THEN Raise(<<>>, u.err)
             ELSE Return(<<>>,
                    [type |-> "heartbeat",
                     sequence |-> sequence,
                     timestamp |-> u.val[1],
                     status |-> u.val[2]])

_decode_command(payload, sequence) ==
    IF Len(payload) < FixedMin THEN Raise(<<>>, PayloadTooShort)
    ELSE LET u == unpack(FmtBI, Prefix(payload, FixedMin))
         IN  IF ~u.ok THEN Raise(<<>>, u.err)
             ELSE IF u.val[1] \notin CommandCode THEN Raise(<<>>, UnrecognizedCode)
             ELSE Return(<<>>,
                    [type |-> "command",
                     sequence |-> sequence,
                     command_code |-> u.val[1],
                     command_id |-> u.val[2]])

_decode_response(payload, sequence) ==
    IF Len(payload) < FixedMin THEN Raise(<<>>, PayloadTooShort)
    ELSE LET u == unpack(FmtIB, Prefix(payload, FixedMin))
         IN  IF ~u.ok THEN Raise(<<>>, u.err)
             ELSE IF u.val[2] \notin StatusCode THEN Raise(<<>>, UnrecognizedCode)
             ELSE Return(<<>>,
                    [type |-> "response",
                     sequence |-> sequence,
                     command_id |-> u.val[1],
                     status_code |-> u.val[2],
                     data |-> Suffix(payload, FixedMin)])

\* the decoder decode_packet picks for a message type other than KEY_EXCHANGE
DecodePayload(msg_type, payload, sequence) ==
    IF msg_type = TELEMETRY THEN _decode_telemetry(payload, sequence)
    ELSE IF msg_type = ALERT THEN _decode_alert(payload, sequence)
    ELSE IF msg_type = HEARTBEAT THEN _decode_heartbeat(payload, sequence)
    ELSE IF msg_type = COMMAND THEN _decode_command(payload, sequence)
    ELSE IF msg_type = RESPONSE THEN _decode_response(payload, sequence)
    ELSE Raise(<<>>, UnknownMessageType)

\* VersionOk when the version byte is not checked
MutVersionOkAny(version) == TRUE

\* version != BCPVersion.CURRENT
VersionOk(version) == version = CURRENT

\* decode_packet when an encrypted packet is decrypted whatever its length
Mut_decode_packet_NoMinLen(self, packet) ==
    IF packet.len < HdrLen THEN Raise(self, MalformedFrame)
    ELSE IF ~VersionOk(packet.hdr[1]) THEN Raise(self, UnsupportedVersion)
    ELSE IF packet.hdr[2] \notin MessageType THEN Raise(self, UnknownMessageType)
    ELSE IF packet.hdr[2] = KEY_EXCHANGE
         THEN Return(self, [type |-> "key_exchange",
                            sequence |-> packet.hdr[3],
                            public_key |-> KeySlice(packet)])
    ELSE LET d == decrypt(self.encryption, NonceSlice(packet),
                          CipherSlice(packet), Prefix(packet.hdr, HdrLen))
         IN  IF ~d.ok THEN Raise([self EXCEPT !.encryption = d.st], d.err)
             ELSE LET m == DecodePayload(packet.hdr[2], d.val, packet.hdr[3])
                  IN  IF m.ok THEN Return([self EXCEPT !.encryption = d.st], m.val)
                      ELSE Raise([self EXCEPT !.encryption = d.st], m.err)

\* decode_packet when the message type is looked at only after decryption
Mut_decode_packet_TypeLast(self, packet) ==
    IF packet.len < HdrLen THEN Raise(self, MalformedFrame)
    ELSE IF ~VersionOk(packet.hdr[1]) THEN Raise(self, UnsupportedVersion)
    ELSE IF packet.hdr[2] = KEY_EXCHANGE
         THEN Return(self, [type |-> "key_exchange",
                            sequence |-> packet.hdr[3],
                            public_key |-> KeySlice(packet)])
    ELSE IF packet.len < MinEncLen THEN Raise(self, MalformedFrame)
    ELSE LET d == decrypt(self.encryption, NonceSlice(packet),
                          CipherSlice(packet), Prefix(packet.hdr, HdrLen))
         IN  IF ~d.ok THEN Raise([self EXCEPT !.encryption = d.st], d.err)
             ELSE IF packet.hdr[2] \notin MessageType
                  THEN Raise([self EXCEPT !.encryption = d.st], UnknownMessageType)
             ELSE LET m == DecodePayload(packet.hdr[2], d.val, packet.hdr[3])
                  IN  IF m.ok THEN Return([self EXCEPT !.encryption = d.st], m.val)
                      ELSE Raise([self EXCEPT !.encryption = d.st], m.err)

decode_packet(self, packet) ==
    IF packet.len < HdrLen THEN Raise(self, MalformedFrame)
    ELSE IF ~VersionOk(packet.hdr[1]) THEN Raise(self, UnsupportedVersion)
    ELSE IF packet.hdr[2] \notin MessageType THEN Raise(self, UnknownMessageType)
    ELSE IF packet.hdr[2] = KEY_EXCHANGE
         THEN Return(self, [type |-> "key_exchange",
                            sequence |-> packet.hdr[3],
                            public_key |-> KeySlice(packet)])
    ELSE IF packet.len < MinEncLen THEN Raise(self, MalformedFrame)
    ELSE LET d == decrypt(self.encryption, NonceSlice(packet),
                          CipherSlice(packet), Prefix(packet.hdr, HdrLen))
         IN  IF ~d.ok THEN Raise([self EXCEPT !.encryption = d.st], d.err)
             ELSE LET m == DecodePayload(packet.hdr[2], d.val, packet.hdr[3])
                  IN  IF m.ok THEN Return([self EXCEPT !.encryption = d.st], m.val)
                      ELSE Raise([self EXCEPT !.encryption = d.st], m.err)

(***************************************************************************)
(* State: two sessions, one at each end of a connection.                   *)
(***************************************************************************)
VARIABLES
    sess,      \* session -> its BCPProtocol object
    nextKey,   \* the private key the next generate_keypair draws
    kexOut,    \* session -> the key-exchange packet it emitted last
    wire,      \* the encrypted packet emitted last, with the call that made it
    last,      \* the call made last and how it ended
    nEnc,      \* encode_* calls made so far
    nonces,    \* session -> the (key, nonce) pairs its encrypt calls have used
    seq0,      \* session -> its sequence_num before its first successful encode_*, -1 if none
    wireBefore, \* what wire was before the encrypted packet emitted last
    authFailed, \* session -> a decode_packet of it has failed with the authentication-failure error
    processed, \* session -> the packet its last successful process_key_exchange took
    steps      \* the first key-exchange calls, in order (recorded in SpecKex)

Sessions == {"client", "server"}
Peer(s) == IF s = "client" THEN "server" ELSE "client"

NoHow == [i |-> 0, v |-> 0, flip |-> 0, cut |-> -1]
NoWire == [packet |-> NoPacket, sender |-> "none", msg |-> NoVal, seq |-> 0]
NoLast == [op |-> "none", who |-> "none", ok |-> TRUE, err |-> "", val |-> NoVal,
           pre |-> BCPProtocol, input |-> NoPacket, base |-> NoPacket, how |-> NoHow]

\* the record of a call op on session s with outcome r
Called(op, s, r, input, base, how) ==
    [op |-> op, who |-> s, ok |-> r.ok, err |-> r.err, val |-> r.val,
     pre |-> sess[s], input |-> input, base |-> base, how |-> how]

InitProto ==
    /\ sess = [s \in Sessions |-> BCPProtocol]
    /\ nextKey = 1
    /\ kexOut = [s \in Sessions |-> NoPacket]
    /\ wire = NoWire
    /\ last = NoLast
    /\ nEnc = 0
    /\ nonces = [s \in Sessions |-> <<>>]
    /\ seq0 = [s \in Sessions |-> -1]
    /\ authFailed = [s \in Sessions |-> FALSE]
    /\ wireBefore = NoWire
    /\ processed = [s \in Sessions |-> NoPacket]
    /\ steps = <<>>

(***************************************************************************)
(* What the channel can do to a packet: change one header byte, invert one *)
(* bit of ciphertext or tag, cut the packet short.                         *)
(***************************************************************************)
SetHdr(f, i, v) == IF i = 0 THEN f ELSE [f EXCEPT !.hdr[i] = v]
FlipBit(f, p) == IF p = 0 THEN f ELSE [f EXCEPT !.body.flip = p]
Cut(f, n) == IF n < 0 THEN f ELSE [f EXCEPT !.len = n, !.hdr = Prefix(f.hdr, n)]
Tamper(f, how) == Cut(FlipBit(SetHdr(f, how.i, how.v), how.flip), how.cut)

\* bits of ciphertext and tag of an encrypted packet, numbered from 1
CipherBits(f) == IF f.body.t = "sealed" THEN 8 * (f.len - MinEncLen) ELSE 0

\* the header changes tried: a wrong version, another message type, the
\* key-exchange type, an undefined type, another sequence, other flags
HdrChanges(f) ==
    {[i |-> 1, v |-> v] : v \in {0, 2} \ {f.hdr[1]}}
    \cup {[i |-> 2, v |-> v] : v \in {HEARTBEAT, KEY_EXCHANGE, 7} \ {f.hdr[2]}}
    \cup {[i |-> 3, v |-> (f.hdr[3] + 1) % 256]}
    \cup {[i |-> 4, v |-> v] : v \in {0} \ {f.hdr[4]}}

\* the bit flips tried: the first and last bit of ciphertext-and-tag, and the
\* first bit of the tag
Flips(f) ==
    IF CipherBits(f) = 0 THEN {}
    ELSE {1, CipherBits(f) - 8 * TagLen + 1, CipherBits(f)}

\* the cuts tried: lengths around each length check
Cuts(f) == {n \in {0, 1, HdrLen - 1, HdrLen, MinEncLen - 1, MinEncLen, f.len - 1} :
               n >= 0 /\ n < f.len}

\* nothing; a header change; a flip; a cut; a header change and a cut that
\* leaves no whole header
Hows(f) ==
    {NoHow}
    \cup {[NoHow EXCEPT !.i = h.i, !.v = h.v] : h \in HdrChanges(f)}
    \cup {[NoHow EXCEPT !.flip = p] : p \in Flips(f)}
    \cup {[NoHow EXCEPT !.cut = c] : c \in Cuts(f)}
    \cup UNION {{[NoHow EXCEPT !.i = h.i, !.v = h.v, !.cut = c] :
                    c \in {n \in Cuts(f) : n >= h.i /\ n < HdrLen}} :
                h \in HdrChanges(f)}

(***************************************************************************)
(* Inputs of the calls.                                                    *)
(***************************************************************************)
\* readings of int(time.time()) and of os.urandom(4)
Clock == {1700000000, 1700000001}
Rands == {0}

\* k times the letter A
RECURSIVE Letters(_)
Letters(k) == IF k = 0 THEN <<>> ELSE <<65>> \o Letters(k - 1)

\* alert texts: empty, or of a length near the 11-byte limit, ending in
\* nothing, in a 2-byte character (e acute) or in a 3-byte one (euro sign)
Texts ==
    {Letters(k) \o tail :
        k \in {0} \cup {n \in (MaxMsgChars - 2)..MaxMsgChars : n >= 0},
        tail \in {<<>>, <<233>>, <<8364>>}}

\* telemetry readings: the self-test's, one with more digits than are kept
\* and no temperature, one with no battery
TelemetryArgs ==
    {[cpu_percent |-> 45200, ram_percent |-> 62800, temp_c |-> <<52300>>,
      battery_percent |-> <<85>>, uptime_seconds |-> 86400],
     [cpu_percent |-> 45207, ram_percent |-> 100000, temp_c |-> <<>>,
      battery_percent |-> <<100>>, uptime_seconds |-> 0],
     [cpu_percent |-> 0, ram_percent |-> 62809, temp_c |-> <<52399>>,
      battery_percent |-> <<>>, uptime_seconds |-> 86400]}

AlertArgs ==
    [alert_code : {1}, message : Texts]
    \cup [alert_code : {255}, message : {Letters(3)}]
HeartbeatArgs == [status : {0, 255}]
CommandArgs == [command_code : {1, 3}, command_id : {0, 2147483647}]
ResponseArgs == [command_id : {7}, status_code : {0, 2}, data : {<<>>, <<0, 255>>}]

\* one message of each kind, for the behaviours that look at the channel
FewTelemetryArgs == {a \in TelemetryArgs : a.cpu_percent = 45200}
FewAlertArgs == {a \in AlertArgs : a.alert_code = 255}
FewHeartbeatArgs == {a \in HeartbeatArgs : a.status = 0}
FewCommandArgs == {a \in CommandArgs : a.command_code = 1 /\ a.command_id = 0}
FewResponseArgs == {a \in ResponseArgs : a.status_code = 0 /\ a.data # <<>>}

(***************************************************************************)
(* Actions: one per call on a session.                                     *)
(***************************************************************************)
\* session s calls create_key_exchange_packet
CreateKex(s) ==
    LET r == create_key_exchange_packet(sess[s], nextKey)
    IN  /\ sess' = [sess EXCEPT ![s] = r.st]
        /\ nextKey' = nextKey + 1
        /\ kexOut' = [kexOut EXCEPT ![s] = r.val]
        /\ last' = Called("create_key_exchange_packet", s, r, NoPacket, NoPacket, NoHow)
        /\ UNCHANGED <<wire, wireBefore, nEnc, nonces, seq0, authFailed, processed>>

\* what may reach process_key_exchange of s: the peer's latest key-exchange
\* packet (an empty read, if it emitted none)
KexWhole(s) == {[base |-> kexOut[Peer(s)], how |-> NoHow]}

\* ... or that packet cut short, or the encrypted packet emitted last
KexInputs(s) ==
    KexWhole(s)
    \cup {[base |-> kexOut[Peer(s)], how |-> [NoHow EXCEPT !.cut = c]] :
            c \in {n \in {0, KexLen - 1} : n < kexOut[Peer(s)].len}}
    \cup {[base |-> wire.packet, how |-> NoHow]}

\* session s calls process_key_exchange on packet x
ProcessKex(s, x) ==
    LET packet == Tamper(x.base, x.how)
        r == process_key_exchange(sess[s], packet)
    IN  /\ sess' = [sess EXCEPT ![s] = r.st]
        /\ last' = Called("process_key_exchange", s, r, packet, x.base, x.how)
        /\ processed' = IF r.ok THEN [processed EXCEPT ![s] = packet] ELSE processed
        /\ UNCHANGED <<nextKey, kexOut, wire, wireBefore, nEnc, nonces, seq0, authFailed>>

\* the effect of an encode_* call by s with arguments msg and outcome r
Encoded(s, op, msg, r) ==
    /\ sess' = [sess EXCEPT ![s] = r.st]
    /\ wire' = IF r.ok
               THEN [packet |-> r.val, sender |-> s, msg |-> msg,
                     seq |-> sess[s].sequence_num]
               ELSE wire
    /\ nonces' = IF r.ok
                 THEN [nonces EXCEPT ![s] =
                          Append(@, <<r.val.body.ct.key, r.val.body.nonce>>)]
                 ELSE nonces
    /\ seq0' = IF r.ok /\ seq0[s] = -1
               THEN [seq0 EXCEPT ![s] = sess[s].sequence_num]
               ELSE seq0
    /\ last' = Called(op, s, r, NoPacket, NoPacket, NoHow)
    /\ nEnc' = nEnc + 1
    /\ wireBefore' = IF r.ok THEN wire ELSE wireBefore
    /\ UNCHANGED <<nextKey, kexOut, authFailed, processed>>

EncodeTelemetry(s, a, now, rnd) ==
    Encoded(s, "encode_telemetry", [type |-> "telemetry", args |-> a],
            encode_telemetry(sess[s], a.cpu_percent, a.ram_percent, a.temp_c,
                             a.battery_percent, a.uptime_seconds, now, rnd))

EncodeAlert(s, a, now, rnd) ==
    Encoded(s, "encode_alert", [type |-> "alert", args |-> a],
            encode_alert(sess[s], a.alert_code, a.message, now, rnd))

EncodeHeartbeat(s, a, now, rnd) ==
    Encoded(s, "encode_heartbeat", [type |-> "heartbeat", args |-> a],
            encode_heartbeat(sess[s], a.status, now, rnd))

EncodeCommand(s, a, now, rnd) ==
    Encoded(s, "encode_command", [type |-> "command", args |-> a],
            encode_command(sess[s], a.command_code, a.command_id, now, rnd))

EncodeResponse(s, a, now, rnd) ==
    Encoded(s, "encode_response", [type |-> "response", args |-> a],
            encode_response(sess[s], a.command_id, a.status_code, a.data, now, rnd))

\* what may reach decode_packet: the encrypted packet emitted last or a
\* key-exchange packet, as sent
DecodeSent ==
    {[base |-> f, how |-> NoHow] :
        f \in ({wire.packet} \cup {kexOut[s] : s \in Sessions}) \ {NoPacket}}

\* ... or the encrypted packet changed in transit
DecodeInputs ==
    DecodeSent
    \cup (IF wire.packet = NoPacket THEN {}
          ELSE {[base |-> wire.packet, how |-> h] : h \in Hows(wire.packet)})

\* what may reach decode_packet again and out of order: the two encrypted
\* packets emitted last, as sent
DecodeKept ==
    {[base |-> f, how |-> NoHow] : f \in {wire.packet, wireBefore.packet} \ {NoPacket}}

\* session s calls decode_packet on packet x
Decode(s, x) ==
    LET packet == Tamper(x.base, x.how)
        r == decode_packet(sess[s], packet)
    IN  /\ sess' = [sess EXCEPT ![s] = r.st]
        /\ last' = Called("decode_packet", s, r, packet, x.base, x.how)
        /\ authFailed' = IF r.err = AuthenticationFailure
                         THEN [authFailed EXCEPT ![s] = TRUE]
                         ELSE authFailed
        /\ UNCHANGED <<nextKey, kexOut, wire, wireBefore, nEnc, nonces, seq0, processed>>

(***************************************************************************)
(* ConnectivityManager (src/PiZero/connectivity_manager.py).               *)
(***************************************************************************)
\* ConnectionMode
OFFLINE == "offline"
MQTT == "mqtt"
BLE == "ble"
ConnectionMode == {OFFLINE, MQTT, BLE}

\* what the TCP probe of check_mqtt_connectivity can meet: connect_ex returns
\* 0, returns an error code, socket.gaierror, another exception
MqttOutcomes == {"connected", "refused", "gaierror", "exception"}
\* what the scan of check_ble_connectivity can meet: a device with the
\* server's name, none, bleak missing, another exception; "looperror" is an
\* exception of the event loop check_connectivity runs the scan on
BleOutcomes == {"found", "notfound", "importerror", "exception", "looperror"}

\* check_mqtt_connectivity when no address is ever probed
Mut_check_mqtt_connectivity_Never(broker, outcome) == FALSE

check_mqtt_connectivity(broker, outcome) ==
    IF broker = "AUTO" THEN FALSE
    ELSE outcome = "connected"

check_ble_connectivity(outcome) == outcome = "found"

\* check_connectivity when the fallback is tried first
Mut_check_connectivity_BleFirst(broker, mq, bl) ==
    IF bl # "looperror" /\ check_ble_connectivity(bl) THEN BLE
    ELSE IF check_mqtt_connectivity(broker, mq) THEN MQTT
    ELSE OFFLINE

\* check_connectivity when an exception of the event loop reaches its caller
Mut_check_connectivity_LoopErrorEscapes(broker, mq, bl) ==
    IF check_mqtt_connectivity(broker, mq) THEN MQTT
    ELSE IF bl = "looperror" THEN "raised"
    ELSE IF check_ble_connectivity(bl) THEN BLE
    ELSE OFFLINE

check_connectivity(broker, mq, bl) ==
    IF check_mqtt_connectivity(broker, mq) THEN MQTT
    ELSE IF bl # "looperror" /\ check_ble_connectivity(bl) THEN BLE
    ELSE OFFLINE

VARIABLES
    mqtt_broker,     \* the configured broker address
    current_mode,
    is_monitoring,
    stop_event,      \* TRUE when set
    monitor_thread,  \* the worker start_monitoring created last, 0 for None
    callback,        \* "none" or the registered handler
    worker,          \* worker -> where it is in _monitor_loop, and its locals
    nextWorker,      \* the next worker start_monitoring creates
    probe,           \* the check_connectivity call completed last
    calls,           \* the handler invocations so far, in order (the first MaxLog)
    nTicks,          \* check_connectivity calls made by workers so far (up to MaxTicks)
    caller,          \* the thread that calls the manager: where it is in a call, and its last call
    nCalls           \* start_monitoring, stop_monitoring and force_mode calls made so far

arbVars == <<mqtt_broker, current_mode, is_monitoring, stop_event, monitor_thread,
             callback, worker, nextWorker, probe, calls, nTicks, caller, nCalls>>

Workers == 1..MaxWorkers
Unborn == [pc |-> "unborn", new_mode |-> OFFLINE, old_mode |-> OFFLINE,
           differed |-> FALSE, invoked |-> 0, asked |-> FALSE]
\* the caller's thread between calls, having made none
Idle == [pc |-> "idle", op |-> "none", noop |-> FALSE, mode |-> OFFLINE,
         old_mode |-> OFFLINE, had |-> "none", invoked |-> 0, timedout |-> FALSE]
\* handler invocations calls can hold
MaxLog == MaxTicks + MaxCalls
\* the workers that are in _monitor_loop
Alive == {w \in Workers : worker[w].pc \notin {"unborn", "done"}}
NoProbe == [by |-> -1, mqtt |-> "none", ble |-> "none", mode |-> OFFLINE]

\* ConnectivityManager.__init__ with mqtt_broker one of brokers
InitArb(brokers) ==
    /\ mqtt_broker \in brokers
    /\ current_mode = OFFLINE
    /\ is_monitoring = FALSE
    /\ stop_event = FALSE
    /\ monitor_thread = 0
    /\ callback = "none"
    /\ worker = [w \in Workers |-> Unborn]
    /\ nextWorker = 1
    /\ probe = NoProbe
    /\ calls = <<>>
    /\ nTicks = 0
    /\ caller = Idle
    /\ nCalls = 0

\* the record of a check_connectivity call by `by` (0 is the caller's thread);
\* the fallback is not probed when the primary probe succeeded
Probed(by, mq, bl) ==
    [by |-> by, mqtt |-> mq,
     ble |-> IF check_mqtt_connectivity(mqtt_broker, mq) THEN "skipped" ELSE bl,
     mode |-> check_connectivity(mqtt_broker, mq, bl)]

\* check_connectivity when it stores the mode it evaluates
Mut_CheckConnectivity_Stores(mq, bl) ==
    /\ caller.pc = "idle"
    /\ probe' = Probed(0, mq, bl)
    /\ current_mode' = check_connectivity(mqtt_broker, mq, bl)
    /\ UNCHANGED <<mqtt_broker, is_monitoring, stop_event,
                   monitor_thread, callback, worker, nextWorker, calls, nTicks,
                   caller, nCalls>>

\* the caller's thread calls check_connectivity
CheckConnectivity(mq, bl) ==
    /\ caller.pc = "idle"
    /\ probe' = Probed(0, mq, bl)
    /\ UNCHANGED <<mqtt_broker, current_mode, is_monitoring, stop_event,
                   monitor_thread, callback, worker, nextWorker, calls, nTicks,
                   caller, nCalls>>

\* the caller's thread has returned from call op; noop: it returned at once
Returned(op, noop) == [Idle EXCEPT !.op = op, !.noop = noop]

\* the caller's thread calls get_current_mode; mode holds what it returned
GetCurrentMode ==
    /\ caller.pc = "idle"
    /\ caller' = [Returned("get_current_mode", FALSE) EXCEPT !.mode = current_mode]
    /\ UNCHANGED <<mqtt_broker, current_mode, is_monitoring, stop_event,
                   monitor_thread, callback, worker, nextWorker, probe, calls, nTicks,
                   nCalls>>

\* start_monitoring when it registers the handler before it looks at is_monitoring
Mut_StartMonitoring_Replaces(cb) ==
    /\ caller.pc = "idle"
    /\ nCalls' = nCalls + 1
    /\ caller' = [Returned("start_monitoring", is_monitoring) EXCEPT !.had = cb]
    /\ callback' = cb
    /\ IF is_monitoring
       THEN UNCHANGED <<mqtt_broker, current_mode, is_monitoring, stop_event,
                        monitor_thread, worker, nextWorker, probe, calls, nTicks>>
       ELSE /\ nextWorker \in Workers
            /\ is_monitoring' = TRUE
            /\ stop_event' = FALSE
            /\ monitor_thread' = nextWorker
            /\ worker' = [worker EXCEPT ![nextWorker] = [Unborn EXCEPT !.pc = "loop"]]
            /\ nextWorker' = nextWorker + 1
            /\ UNCHANGED <<mqtt_broker, current_mode, probe, calls, nTicks>>

\* the caller's thread calls start_monitoring(cb)
StartMonitoring(cb) ==
    /\ caller.pc = "idle"
    /\ nCalls' = nCalls + 1
    /\ caller' = [Returned("start_monitoring", is_monitoring) EXCEPT !.had = cb]
    /\ IF is_monitoring
       THEN UNCHANGED <<mqtt_broker, current_mode, is_monitoring, stop_event,
                        monitor_thread, callback, worker, nextWorker, probe, calls,
                        nTicks>>
       ELSE /\ nextWorker \in Workers
            /\ callback' = cb
            /\ is_monitoring' = TRUE
            /\ stop_event' = FALSE
            /\ monitor_thread' = nextWorker
            /\ worker' = [worker EXCEPT ![nextWorker] = [Unborn EXCEPT !.pc = "loop"]]
            /\ nextWorker' = nextWorker + 1
            /\ UNCHANGED <<mqtt_broker, current_mode, probe, calls, nTicks>>

\* self.stop_event.set(), seen by every worker in its loop
Signalled == [w \in Workers |->
                IF w \in Alive THEN [worker[w] EXCEPT !.asked = TRUE] ELSE worker[w]]

\* the caller's thread calls stop_monitoring: it returns at once when
\* is_monitoring is False, else sets stop_event and joins monitor_thread
StopMonitoring ==
    /\ caller.pc = "idle"
    /\ nCalls' = nCalls + 1
    /\ IF ~is_monitoring
       THEN /\ caller' = Returned("stop_monitoring", TRUE)
            /\ UNCHANGED <<stop_event, worker>>
       ELSE /\ stop_event' = TRUE
            /\ worker' = Signalled
            /\ caller' = [Idle EXCEPT !.pc = "join", !.op = "stop_monitoring"]
    /\ UNCHANGED <<mqtt_broker, current_mode, is_monitoring, monitor_thread, callback,
                   nextWorker, probe, calls, nTicks>>

\* the worker being joined is inside check_connectivity or the handler, which
\* can take longer than the 5 seconds join waits
JoinCanTimeOut == worker[monitor_thread].pc \in {"check", "call"}

\* self.monitor_thread.join(timeout=5) returns, the worker having ended or
\* the timeout having passed; then self.is_monitoring = False. In force_mode
\* the caller goes on to read current_mode
Join ==
    /\ caller.pc = "join"
    /\ worker[monitor_thread].pc = "done" \/ JoinCanTimeOut
    /\ is_monitoring' = FALSE
    /\ caller' = [caller EXCEPT
                    !.pc = IF caller.op = "force_mode" THEN "read" ELSE "idle",
                    !.timedout = worker[monitor_thread].pc # "done"]
    /\ UNCHANGED <<mqtt_broker, current_mode, stop_event, monitor_thread, callback,
                   worker, nextWorker, probe, calls, nTicks, nCalls>>

\* the caller's thread calls force_mode(mode): stop_monitoring first when
\* is_monitoring
ForceMode(mode) ==
    /\ caller.pc = "idle"
    /\ nCalls' = nCalls + 1
    /\ IF is_monitoring
       THEN /\ stop_event' = TRUE
            /\ worker' = Signalled
            /\ caller' = [Idle EXCEPT !.pc = "join", !.op = "force_mode", !.mode = mode]
       ELSE /\ caller' = [Idle EXCEPT !.pc = "read", !.op = "force_mode", !.mode = mode]
            /\ UNCHANGED <<stop_event, worker>>
    /\ UNCHANGED <<mqtt_broker, current_mode, is_monitoring, monitor_thread, callback,
                   nextWorker, probe, calls, nTicks>>

\* force_mode: old_mode = self.current_mode
ForceRead ==
    /\ caller.pc = "read"
    /\ caller' = [caller EXCEPT !.pc = "write", !.old_mode = current_mode]
    /\ UNCHANGED <<mqtt_broker, current_mode, is_monitoring, stop_event, monitor_thread,
                   callback, worker, nextWorker, probe, calls, nTicks, nCalls>>

\* force_mode when it leaves current_mode as it was
MutForceWriteNothing ==
    /\ caller.pc = "write"
    /\ caller' = [caller EXCEPT
                    !.pc = IF callback # "none" /\ caller.old_mode # caller.mode
                           THEN "call" ELSE "idle",
                    !.had = callback]
    /\ UNCHANGED <<mqtt_broker, current_mode, is_monitoring, stop_event, monitor_thread,
                   callback, worker, nextWorker, probe, calls, nTicks, nCalls>>

\* force_mode: self.current_mode = mode ; if self.callback and old_mode != mode
ForceWrite ==
    /\ caller.pc = "write"
    /\ current_mode' = caller.mode
    /\ caller' = [caller EXCEPT
                    !.pc = IF callback # "none" /\ caller.old_mode # caller.mode
                           THEN "call" ELSE "idle",
                    !.had = callback]
    /\ UNCHANGED <<mqtt_broker, is_monitoring, stop_event, monitor_thread,
                   callback, worker, nextWorker, probe, calls, nTicks, nCalls>>

\* one more handler invocation on record
Logged(by, old, new, raised) ==
    IF Len(calls) < MaxLog
    THEN Append(calls, [by |-> by, old |-> old, new |-> new, raised |-> raised])
    ELSE calls

\* force_mode: self.callback(old_mode, mode), which returns or raises; an
\* exception reaches the caller of force_mode
ForceCall(raised) ==
    /\ caller.pc = "call"
    /\ calls' = Logged(0, caller.old_mode, caller.mode, raised)
    /\ caller' = [caller EXCEPT !.pc = "idle", !.invoked = @ + 1]
    /\ UNCHANGED <<mqtt_broker, current_mode, is_monitoring, stop_event, monitor_thread,
                   callback, worker, nextWorker, probe, nTicks, nCalls>>

\* worker w moves on in _monitor_loop, changing only its own record
Goes(w, rec) ==
    /\ worker' = [worker EXCEPT ![w] = rec]
    /\ UNCHANGED <<mqtt_broker, is_monitoring, stop_event, monitor_thread, callback,
                   nextWorker, caller, nCalls>>

\* while not self.stop_event.is_set()
LoopTest(w) ==
    /\ worker[w].pc = "loop"
    /\ Goes(w, [worker[w] EXCEPT !.pc = IF stop_event THEN "done" ELSE "check",
                                 !.differed = FALSE, !.invoked = 0])
    /\ UNCHANGED <<current_mode, probe, calls, nTicks>>

\* new_mode = self.check_connectivity()
Check(w, mq, bl) ==
    /\ worker[w].pc = "check"
    /\ Goes(w, [worker[w] EXCEPT !.pc = "compare",
                                 !.new_mode = check_connectivity(mqtt_broker, mq, bl)])
    /\ probe' = Probed(w, mq, bl)
    /\ nTicks' = IF nTicks < MaxTicks THEN nTicks + 1 ELSE nTicks
    /\ UNCHANGED <<current_mode, calls>>

\* Compare when the handler is notified on every tick
MutCompareAlways(w) ==
    /\ worker[w].pc = "compare"
    /\ Goes(w, [worker[w] EXCEPT !.pc = "read",
                                 !.differed = worker[w].new_mode # current_mode])
    /\ UNCHANGED <<current_mode, probe, calls, nTicks>>

\* if new_mode != self.current_mode
Compare(w) ==
    /\ worker[w].pc = "compare"
    /\ Goes(w, [worker[w] EXCEPT
                  !.pc = IF worker[w].new_mode # current_mode THEN "read" ELSE "wait",
                  !.differed = worker[w].new_mode # current_mode])
    /\ UNCHANGED <<current_mode, probe, calls, nTicks>>

\* old_mode = self.current_mode
ReadOld(w) ==
    /\ worker[w].pc = "read"
    /\ Goes(w, [worker[w] EXCEPT !.pc = "write", !.old_mode = current_mode])
    /\ UNCHANGED <<current_mode, probe, calls, nTicks>>

\* WriteMode when the mode evaluated is not stored
Mut_WriteMode_Keeps(w) ==
    /\ worker[w].pc = "write"
    /\ Goes(w, [worker[w] EXCEPT !.pc = IF callback # "none" THEN "call" ELSE "wait"])
    /\ UNCHANGED <<current_mode, probe, calls, nTicks>>

\* self.current_mode = new_mode ; if self.callback
WriteMode(w) ==
    /\ worker[w].pc = "write"
    /\ current_mode' = worker[w].new_mode
    /\ Goes(w, [worker[w] EXCEPT !.pc = IF callback # "none" THEN "call" ELSE "wait"])
    /\ UNCHANGED <<probe, calls, nTicks>>

\* Call when an exception of the handler ends the worker
Mut_Call_RaiseEnds(w, raised) ==
    /\ worker[w].pc = "call"
    /\ calls' = Logged(w, worker[w].old_mode, worker[w].new_mode, raised)
    /\ Goes(w, [worker[w] EXCEPT !.pc = IF raised THEN "done" ELSE "wait",
                                 !.invoked = @ + 1])
    /\ UNCHANGED <<current_mode, probe, nTicks>>

\* self.callback(old_mode, new_mode), which returns or raises; an exception
\* is caught and logged
Call(w, raised) ==
    /\ worker[w].pc = "call"
    /\ calls' = Logged(w, worker[w].old_mode, worker[w].new_mode, raised)
    /\ Goes(w, [worker[w] EXCEPT !.pc = "wait", !.invoked = @ + 1])
    /\ UNCHANGED <<current_mode, probe, nTicks>>

\* self.stop_event.wait(self.check_interval) returns, set or timed out
Wait(w) ==
    /\ worker[w].pc = "wait"
    /\ Goes(w, [worker[w] EXCEPT !.pc = "loop"])
    /\ UNCHANGED <<current_mode, probe, calls, nTicks>>

(***************************************************************************)
(* BLEServer (src/Server/ble_server.py): the GATT callbacks.               *)
(***************************************************************************)
\* the agents that connect to the server
Peers == {"p1", "p2"}
\* the keys self.protocols can have: the address the callbacks use, and the
\* addresses of the agents
Addresses == {"agent_address"} \cup Peers

VARIABLES
    protocols,    \* address -> <<>> or <<the BCPProtocol kept for it>>
    kexChar,      \* the value of the key-exchange characteristic
    event_queue,  \* the events put on the message bus
    peer,         \* agent -> its own BCPProtocol
    peerOut,      \* agent -> the key-exchange packet it created last
    touched,      \* address -> the agents whose writes used protocols[address]
    srvLast,      \* the callback run last and how it ended
    bleKey,       \* the private key the next generate_keypair draws
    nSrv          \* calls made so far by agents and callbacks

srvVars == <<protocols, kexChar, event_queue, peer, peerOut, touched, srvLast,
             bleKey, nSrv>>

NoSrvLast == [op |-> "none", by |-> "none", ok |-> TRUE, err |-> ""]

\* BLEServer.__init__ and one BCPProtocol() for each agent
InitSrv ==
    /\ protocols = [a \in Addresses |-> <<>>]
    /\ kexChar = NoPacket
    /\ event_queue = <<>>
    /\ peer = [p \in Peers |-> BCPProtocol]
    /\ peerOut = [p \in Peers |-> NoPacket]
    /\ touched = [a \in Addresses |-> {}]
    /\ srvLast = NoSrvLast
    /\ bleKey = 1
    /\ nSrv = 0

\* _get_or_create_protocol(address): the key of self.protocols it uses and
\* the session under it
_get_or_create_protocol(address) ==
    [key |-> address,
     protocol |-> IF protocols[address] = <<>> THEN BCPProtocol
                  ELSE protocols[address][1]]

\* agent p calls create_key_exchange_packet on its own session
PeerCreateKex(p) ==
    LET r == create_key_exchange_packet(peer[p], bleKey)
    IN  /\ peer' = [peer EXCEPT ![p] = r.st]
        /\ peerOut' = [peerOut EXCEPT ![p] = r.val]
        /\ bleKey' = bleKey + 1
        /\ nSrv' = nSrv + 1
        /\ UNCHANGED <<protocols, kexChar, event_queue, touched, srvLast>>

\* _on_key_exchange(characteristic, value) for a write by agent p
OnKeyExchange(p, value) ==
    LET got == _get_or_create_protocol("agent_address")
        r1 == process_key_exchange(got.protocol, value)
        r2 == create_key_exchange_packet(r1.st, bleKey)
    IN  /\ protocols' = [protocols EXCEPT
                           ![got.key] = << IF r1.ok THEN r2.st ELSE r1.st >>]
        /\ kexChar' = IF r1.ok THEN r2.val ELSE kexChar
        /\ bleKey' = IF r1.ok THEN bleKey + 1 ELSE bleKey
        /\ touched' = [touched EXCEPT ![got.key] = @ \cup {p}]
        /\ srvLast' = [op |-> "_on_key_exchange", by |-> p, ok |-> r1.ok,
                       err |-> r1.err]
        /\ nSrv' = nSrv + 1
        /\ UNCHANGED <<event_queue, peer, peerOut>>

\* agent p reads the key-exchange characteristic and calls
\* process_key_exchange on what it read
PeerProcessKex(p) ==
    LET r == process_key_exchange(peer[p], kexChar)
    IN  /\ peer' = [peer EXCEPT ![p] = r.st]
        /\ nSrv' = nSrv + 1
        /\ UNCHANGED <<protocols, kexChar, event_queue, peerOut, touched, srvLast,
                       bleKey>>

\* _on_telemetry_write when it forwards whatever decode_packet returns
Mut_OnTelemetryWrite_AnyType(p, value) ==
    LET address == "agent_address"
        r == decode_packet(protocols[address][1], value)
    IN  /\ nSrv' = nSrv + 1
        /\ IF protocols[address] = <<>>
           THEN /\ srvLast' = [op |-> "_on_telemetry_write", by |-> p, ok |-> FALSE,
                               err |-> "Telemetry received before key exchange"]
                /\ UNCHANGED <<protocols, event_queue, touched>>
           ELSE /\ protocols' = [protocols EXCEPT ![address] = <<r.st>>]
                /\ touched' = [touched EXCEPT ![address] = @ \cup {p}]
                /\ srvLast' = [op |-> "_on_telemetry_write", by |-> p, ok |-> r.ok,
                               err |-> r.err]
                /\ event_queue' =
                      IF r.ok
                      THEN Append(event_queue, [agent_id |-> address, type |-> "telemetry",
                                                data |-> r.val])
                      ELSE event_queue
        /\ UNCHANGED <<kexChar, peer, peerOut, bleKey>>

\* _on_telemetry_write(characteristic, value) for a write by agent p
OnTelemetryWrite(p, value) ==
    LET address == "agent_address"
        r == decode_packet(protocols[address][1], value)
    IN  /\ nSrv' = nSrv + 1
        /\ IF protocols[address] = <<>>
           THEN /\ srvLast' = [op |-> "_on_telemetry_write", by |-> p, ok |-> FALSE,
                               err |-> "Telemetry received before key exchange"]
                /\ UNCHANGED <<protocols, event_queue, touched>>
           ELSE /\ protocols' = [protocols EXCEPT ![address] = <<r.st>>]
                /\ touched' = [touched EXCEPT ![address] = @ \cup {p}]
                /\ srvLast' = [op |-> "_on_telemetry_write", by |-> p, ok |-> r.ok,
                               err |-> r.err]
                /\ event_queue' =
                      IF r.ok /\ r.val.type = "telemetry"
                      THEN Append(event_queue, [agent_id |-> address, type |-> "telemetry",
                                                data |-> r.val])
                      ELSE event_queue
        /\ UNCHANGED <<kexChar, peer, peerOut, bleKey>>

\* _on_alert_write(characteristic, value) for a write by agent p
OnAlertWrite(p, value) ==
    LET address == "agent_address"
        r == decode_packet(protocols[address][1], value)
    IN  /\ nSrv' = nSrv + 1
        /\ IF protocols[address] = <<>>
           THEN /\ srvLast' = [op |-> "_on_alert_write", by |-> p, ok |-> FALSE,
                               err |-> "Alert received before key exchange"]
                /\ UNCHANGED <<protocols, event_queue, touched>>
           ELSE /\ protocols' = [protocols EXCEPT ![address] = <<r.st>>]
                /\ touched' = [touched EXCEPT ![address] = @ \cup {p}]
                /\ srvLast' = [op |-> "_on_alert_write", by |-> p, ok |-> r.ok,
                               err |-> r.err]
                /\ event_queue' =
                      IF r.ok /\ r.val.type = "alert"
                      THEN Append(event_queue, [agent_id |-> address, type |-> "alert",
                                                data |-> r.val])
                      ELSE event_queue
        /\ UNCHANGED <<kexChar, peer, peerOut, bleKey>>

\* _on_response_write(characteristic, value) for a write by agent p
OnResponseWrite(p, value) ==
    LET address == "agent_address"
        r == decode_packet(protocols[address][1], value)
    IN  /\ nSrv' = nSrv + 1
        /\ IF protocols[address] = <<>>
           THEN /\ srvLast' = [op |-> "_on_response_write", by |-> p, ok |-> FALSE,
                               err |-> "Response received before key exchange"]
                /\ UNCHANGED <<protocols, event_queue, touched>>
           ELSE /\ protocols' = [protocols EXCEPT ![address] = <<r.st>>]
                /\ touched' = [touched EXCEPT ![address] = @ \cup {p}]
                /\ srvLast' = [op |-> "_on_response_write", by |-> p, ok |-> r.ok,
                               err |-> r.err]
                /\ event_queue' =
                      IF r.ok /\ r.val.type = "response"
                      THEN Append(event_queue, [agent_id |-> address, type |-> "response",
                                                data |-> r.val])
                      ELSE event_queue
        /\ UNCHANGED <<kexChar, peer, peerOut, bleKey>>

(***************************************************************************)
(* BLEClient (src/PiZero/ble_client.py).                                   *)
(***************************************************************************)
VARIABLES
    cli,      \* the BLEClient: connected, key_exchanged, client, protocol
    cliLast,  \* the call made last on it, what it returned, whether it wrote a frame
    fresh,    \* a key exchange has completed since the latest connection was made
    lost,     \* a disconnect or failed connect has happened since the latest key exchange
    cliKey,   \* the private key the next generate_keypair draws
    nCli      \* calls made so far on the BLEClient

cliVars == <<cli, cliLast, fresh, lost, cliKey, nCli>>

\* self.client: None, or a BleakClient whose link is up or not
NoClient == [obj |-> FALSE, up |-> FALSE]
BleakClient(up) == [obj |-> TRUE, up |-> up]

\* BLEClient.__init__
InitCli ==
    /\ cli = [connected |-> FALSE, key_exchanged |-> FALSE, client |-> NoClient,
              protocol |-> BCPProtocol]
    /\ cliLast = [op |-> "none", ret |-> FALSE, wrote |-> FALSE, lost |-> FALSE]
    /\ fresh = FALSE
    /\ lost = FALSE
    /\ cliKey = 1
    /\ nCli = 0

\* the key-exchange packet the server publishes, when it does
SrvKex == Packet(<<CURRENT, KEY_EXCHANGE, 0, 0>>, PubBody(0 - 1))

\* what connect can meet: the address is given, or discover_server finds the
\* server, finds none, or raises; BleakClient.connect leaves the link up, or
\* down, or raises; write_gatt_char returns or raises; read_gatt_char
\* returns the server's packet, or nothing, or raises; _subscribe_notifications
\* returns or raises
ConnectRuns ==
    [disc : {"given", "found", "notfound", "raises"},
     conn : {"up", "down", "raises"},
     kexw : {"ok", "raises"},
     kexr : {"packet", "empty", "raises"},
     sub  : {"ok", "raises"}]

\* is_connected()
is_connected == cli.connected /\ cli.key_exchanged

\* the outcome of _exchange_keys on a link that is up, under run e
_exchange_keys(e) ==
    LET c == create_key_exchange_packet(cli.protocol, cliKey)
        p == process_key_exchange(c.st, IF e.kexr = "packet" THEN SrvKex ELSE NoPacket)
    IN  IF e.kexw = "raises" \/ e.kexr = "raises" THEN [ok |-> FALSE, st |-> c.st]
        ELSE [ok |-> p.ok, st |-> p.st]

\* the BLEClient after disconnect()
Disconnected(protocol) ==
    [connected |-> FALSE, key_exchanged |-> FALSE, client |-> NoClient,
     protocol |-> protocol]

\* a call on the BLEClient has returned
CliReturned(op, ret, wrote) ==
    /\ cliLast' = [op |-> op, ret |-> ret, wrote |-> wrote, lost |-> lost]
    /\ nCli' = nCli + 1

\* connect(server_address) under run e
Connect(e) ==
    LET x == _exchange_keys(e)
    IN  IF e.disc = "notfound"
        THEN /\ CliReturned("connect", FALSE, FALSE)
             /\ lost' = TRUE
             /\ UNCHANGED <<cli, fresh, cliKey>>
        ELSE IF e.disc = "raises"
        THEN /\ cli' = [cli EXCEPT !.connected = FALSE]
             /\ CliReturned("connect", FALSE, FALSE)
             /\ lost' = TRUE
             /\ UNCHANGED <<fresh, cliKey>>
        ELSE IF e.conn = "raises"
        THEN /\ cli' = [cli EXCEPT !.connected = FALSE, !.client = BleakClient(FALSE)]
             /\ CliReturned("connect", FALSE, FALSE)
             /\ lost' = TRUE
             /\ UNCHANGED <<fresh, cliKey>>
        ELSE IF e.conn = "down"
        THEN /\ cli' = [cli EXCEPT !.client = BleakClient(FALSE)]
             /\ CliReturned("connect", FALSE, FALSE)
             /\ lost' = TRUE
             /\ UNCHANGED <<fresh, cliKey>>
        ELSE /\ cliKey' = cliKey + 1
             /\ IF x.ok /\ e.sub = "raises"
                THEN /\ cli' = [connected |-> FALSE, key_exchanged |-> TRUE,
                                client |-> BleakClient(TRUE), protocol |-> x.st]
                     /\ CliReturned("connect", FALSE, FALSE)
                     /\ fresh' = TRUE
                     /\ lost' = TRUE
                ELSE IF x.ok
                THEN /\ cli' = [connected |-> TRUE, key_exchanged |-> TRUE,
                                client |-> BleakClient(TRUE), protocol |-> x.st]
                     /\ CliReturned("connect", TRUE, FALSE)
                     /\ fresh' = TRUE
                     /\ lost' = FALSE
                ELSE /\ cli' = Disconnected(x.st)
                     /\ CliReturned("connect", FALSE, FALSE)
                     /\ fresh' = FALSE
                     /\ lost' = TRUE

\* disconnect()
Disconnect ==
    /\ cli' = Disconnected(cli.protocol)
    /\ CliReturned("disconnect", FALSE, FALSE)
    /\ fresh' = FALSE
    /\ lost' = TRUE
    /\ UNCHANGED cliKey

\* a send_* call whose encode_* call has outcome r and whose write_gatt_char
\* returns or raises; the write raises when the link is not up
Send(op, r, w) ==
    IF ~cli.connected \/ ~cli.key_exchanged
    THEN /\ CliReturned(op, FALSE, FALSE)
         /\ UNCHANGED <<cli, fresh, lost, cliKey>>
    ELSE /\ cli' = [cli EXCEPT !.protocol = r.st]
         /\ CliReturned(op, r.ok /\ cli.client.up /\ w = "ok",
                            r.ok /\ cli.client.up /\ w = "ok")
         /\ UNCHANGED <<fresh, lost, cliKey>>

send_telemetry(a, now, rnd, w) ==
    Send("send_telemetry",
         encode_telemetry(cli.protocol, a.cpu_percent, a.ram_percent, a.temp_c,
                          a.battery_percent, a.uptime_seconds, now, rnd), w)

send_alert(a, now, rnd, w) ==
    Send("send_alert", encode_alert(cli.protocol, a.alert_code, a.message, now, rnd), w)

send_heartbeat(a, now, rnd, w) ==
    Send("send_heartbeat", encode_heartbeat(cli.protocol, a.status, now, rnd), w)

\* the link of the BleakClient goes down
LinkDrop ==
    /\ cli.client.up
    /\ cli' = [cli EXCEPT !.client.up = FALSE]
    /\ UNCHANGED <<cliLast, fresh, lost, cliKey, nCli>>

(***************************************************************************)
(* The agent (src/PiZero/agent.py): main, run_mqtt_mode, run_ble_mode and  *)
(* the handlers they register. The main thread is the caller of the        *)
(* ConnectivityManager and of the BLEClient.                               *)
(***************************************************************************)
VARIABLES
    agent   \* the main thread: where it is, whether it is inside the event
            \* loop of ble_loop, the telemetry it has published over MQTT,
            \* and the handler invocation that returned last

agentVars == <<agent>>
bleVars == <<srvVars, cliVars, agentVars>>

\* where the main thread is inside ble_loop, connected
BlePcs == {"ble_start", "ble_loop", "ble_telemetry", "ble_heartbeat", "ble_alert"}
\* where it is inside run_mqtt_mode, connected
MqttPcs == {"mqtt_start", "mqtt_loop"}
\* the handlers, named by the function that defines them
OnMqtt == "run_mqtt_mode"
OnBle == "run_ble_mode"
NoHandled == [h |-> "none", old |-> OFFLINE, new |-> OFFLINE, raised |-> FALSE]

\* the agent as main() is entered
InitAgent ==
    agent = [pc |-> "main", in_loop |-> FALSE, published |-> 0, handled |-> NoHandled]

\* on_mode_change(old_mode, new_mode) of either function: after the log line
\* the first thing evaluated is ConnectionMode.BLE (326) or
\* ConnectionMode.MQTT (385). ConnectionMode is imported inside main() (279)
\* and so is a local name of main; in the handlers it is looked up as a
\* global of agent.py, where it is not bound: NameError before any switch
on_mode_change(h, old_mode, new_mode) ==
    [raised |-> TRUE, err |-> "NameError", switched |-> FALSE]

\* main(): initial_mode = conn_mgr.check_connectivity(), then run_mqtt_mode,
\* run_ble_mode, or time.sleep(30) and main() again. asyncio.run inside the
\* event loop of ble_loop raises RuntimeError, which nothing catches
Main(mq, bl) ==
    /\ agent.pc = "main"
    /\ CheckConnectivity(mq, bl)
    /\ LET initial_mode == check_connectivity(mqtt_broker, mq, bl)
       IN  agent' = [agent EXCEPT
                       !.pc = IF initial_mode = MQTT THEN "run_mqtt"
                              ELSE IF initial_mode = BLE
                              THEN IF agent.in_loop THEN "ended" ELSE "run_ble"
                              ELSE "main"]

\* run_mqtt_mode: client.connect(BROKER_ADDRESS, BROKER_PORT, 60) and
\* client.loop_start(); an exception of connect is not caught
MqttConnect(ok) ==
    /\ agent.pc = "run_mqtt"
    /\ agent' = [agent EXCEPT !.pc = IF ok THEN "mqtt_start" ELSE "ended"]

\* run_mqtt_mode: conn_mgr.start_monitoring(on_mode_change)
MqttStart ==
    /\ agent.pc = "mqtt_start"
    /\ StartMonitoring(OnMqtt)
    /\ agent' = [agent EXCEPT !.pc = "mqtt_loop"]

\* run_mqtt_mode, while True: client.publish(TOPIC_TELEMETRY, payload) and
\* time.sleep(TELEMETRY_INTERVAL)
MqttPublish ==
    /\ agent.pc = "mqtt_loop"
    /\ agent' = [agent EXCEPT !.published = @ + 1]

\* run_ble_mode, ble_loop: await ble_client.connect() under run e; when it
\* returns False, time.sleep(30) and main() inside the event loop
BleConnect(e) ==
    /\ agent.pc = "run_ble"
    /\ Connect(e)
    /\ agent' = [agent EXCEPT !.pc = IF cliLast'.ret THEN "ble_start" ELSE "main",
                              !.in_loop = TRUE]

\* ble_loop: conn_mgr.start_monitoring(on_mode_change)
BleStart ==
    /\ agent.pc = "ble_start"
    /\ StartMonitoring(OnBle)
    /\ agent' = [agent EXCEPT !.pc = "ble_loop"]

\* ble_loop: while ble_client.is_connected()
BleLoop ==
    /\ agent.pc = "ble_loop"
    /\ agent' = [agent EXCEPT !.pc = IF is_connected THEN "ble_telemetry" ELSE "ended"]

\* ble_loop: await ble_client.send_telemetry(...)
BleTelemetry(a, now, rnd, w) ==
    /\ agent.pc = "ble_telemetry"
    /\ send_telemetry(a, now, rnd, w)
    /\ agent' = [agent EXCEPT !.pc = "ble_heartbeat"]

\* ble_loop: await ble_client.send_heartbeat()
BleHeartbeat(a, now, rnd, w) ==
    /\ agent.pc = "ble_heartbeat"
    /\ send_heartbeat(a, now, rnd, w)
    /\ agent' = [agent EXCEPT !.pc = "ble_alert"]

\* ble_loop: send_alert(AlertCode.SYSTEM, "High temp") when cpu_temp is over
\* 80, then await asyncio.sleep(TELEMETRY_INTERVAL)
BleAlert(hot, a, now, rnd, w) ==
    /\ agent.pc = "ble_alert"
    /\ IF hot THEN send_alert(a, now, rnd, w) ELSE UNCHANGED cliVars
    /\ agent' = [agent EXCEPT !.pc = "ble_loop"]

\* worker w runs self.callback(old_mode, new_mode), the handler the agent
\* registered, on its own thread
Handle(w) ==
    LET r == on_mode_change(callback, worker[w].old_mode, worker[w].new_mode)
    IN  /\ Call(w, r.raised)
        /\ agent' = [agent EXCEPT
                       !.handled = [h |-> callback, old |-> worker[w].old_mode,
                                    new |-> worker[w].new_mode, raised |-> r.raised]]

(***************************************************************************)
(* Specifications.                                                         *)
(*   SpecKex     the key exchange alone, in every order                    *)
(*   Spec        key exchange, every kind of message, decoding as sent     *)
(*   SpecTamper  key exchange, one message of each kind, decoding what the *)
(*               channel made of it                                        *)
(*   SpecLife    key exchanges repeated and fed damaged packets, with      *)
(*               messages encoded and decoded in between                   *)
(*   SpecTicks   a ConnectivityManager whose monitoring is started and     *)
(*               left running                                              *)
(*   SpecSrv     a BLEServer and two agents that exchange keys with it     *)
(*   SpecCli     a BLEClient whose caller connects, sends and disconnects  *)
(*   SpecArb     a ConnectivityManager whose caller starts and stops       *)
(*               monitoring and forces modes while the workers run         *)
(*   SpecModes   the same, the caller also calling check_connectivity and   *)
(*               get_current_mode                                          *)
(*   SpecArbFair starting and stopping with workers that tick for ever     *)
(*               where neither transport is reachable, every worker being  *)
(*               scheduled again and again                                 *)
(*   SpecConv    monitoring started and left running for ever, the probes  *)
(*               meeting the same outcomes from the tick MaxTicks on, the  *)
(*               worker being scheduled again and again                    *)
(*   SpecAgent   the agent from main() on, its monitor worker ticking      *)
(*   SpecReplay  key exchange, two messages, and the decoding of either,   *)
(*               again and in any order                                    *)
(*   SpecSeq     key exchange, then the client encoding MaxSeqEncodes      *)
(*               messages                                                  *)
(*   SpecNonce   a client that has made 2^32 - 2 encrypt calls under its   *)
(*               key, encoding MaxNonceEncodes more                        *)
(***************************************************************************)
\* s has generated no key pair yet: in Spec and SpecTamper a session runs the
\* key exchange once (SpecKex has sessions generate key pairs again)
FirstKex(s) == sess[s].encryption.private_key = 0

protoVars == <<sess, nextKey, kexOut, wire, wireBefore, last, nEnc, nonces, seq0, authFailed, processed, steps>>
vars == <<protoVars, arbVars, bleVars>>

Init == InitProto /\ InitArb({"localhost"}) /\ InitSrv /\ InitCli /\ InitAgent

\* the call just made joins steps, with whether it was handed a whole packet
LogStep ==
    steps' = IF Len(steps) < MaxSteps
             THEN Append(steps, [op |-> last'.op, who |-> last'.who, ok |-> last'.ok,
                                 whole |-> last'.how = NoHow /\ last'.base # NoPacket])
             ELSE steps

NextKex ==
    \/ \E s \in Sessions : nextKey <= MaxKeyGens /\ CreateKex(s) /\ LogStep /\ UNCHANGED <<arbVars, bleVars>>
    \/ \E s \in Sessions : \E x \in KexInputs(s) : ProcessKex(s, x) /\ LogStep /\ UNCHANGED <<arbVars, bleVars>>

SpecKex == Init /\ [][NextKex]_vars

Next ==
    \/ \E s \in Sessions : FirstKex(s) /\ CreateKex(s) /\ UNCHANGED <<steps, arbVars, bleVars>>
    \/ \E s \in Sessions : \E x \in KexWhole(s) : ProcessKex(s, x) /\ UNCHANGED <<steps, arbVars, bleVars>>
    \/ \E s \in Sessions, a \in TelemetryArgs, now \in Clock, rnd \in Rands :
          nEnc < MaxEncodes /\ EncodeTelemetry(s, a, now, rnd) /\ UNCHANGED <<steps, arbVars, bleVars>>
    \/ \E s \in Sessions, a \in AlertArgs, now \in Clock, rnd \in Rands :
          nEnc < MaxEncodes /\ EncodeAlert(s, a, now, rnd) /\ UNCHANGED <<steps, arbVars, bleVars>>
    \/ \E s \in Sessions, a \in HeartbeatArgs, now \in Clock, rnd \in Rands :
          nEnc < MaxEncodes /\ EncodeHeartbeat(s, a, now, rnd) /\ UNCHANGED <<steps, arbVars, bleVars>>
    \/ \E s \in Sessions, a \in CommandArgs, now \in Clock, rnd \in Rands :
          nEnc < MaxEncodes /\ EncodeCommand(s, a, now, rnd) /\ UNCHANGED <<steps, arbVars, bleVars>>
    \/ \E s \in Sessions, a \in ResponseArgs, now \in Clock, rnd \in Rands :
          nEnc < MaxEncodes /\ EncodeResponse(s, a, now, rnd) /\ UNCHANGED <<steps, arbVars, bleVars>>
    \/ \E s \in Sessions : \E x \in DecodeSent : Decode(s, x) /\ UNCHANGED <<steps, arbVars, bleVars>>

Spec == Init /\ [][Next]_vars

NextTamper ==
    \/ \E s \in Sessions : FirstKex(s) /\ CreateKex(s) /\ UNCHANGED <<steps, arbVars, bleVars>>
    \/ \E s \in Sessions : \E x \in KexWhole(s) : ProcessKex(s, x) /\ UNCHANGED <<steps, arbVars, bleVars>>
    \/ \E s \in Sessions, a \in FewTelemetryArgs, now \in Clock, rnd \in Rands :
          nEnc < MaxEncodes /\ EncodeTelemetry(s, a, now, rnd) /\ UNCHANGED <<steps, arbVars, bleVars>>
    \/ \E s \in Sessions, a \in FewAlertArgs, now \in Clock, rnd \in Rands :
          nEnc < MaxEncodes /\ EncodeAlert(s, a, now, rnd) /\ UNCHANGED <<steps, arbVars, bleVars>>
    \/ \E s \in Sessions, a \in FewHeartbeatArgs, now \in Clock, rnd \in Rands :
          nEnc < MaxEncodes /\ EncodeHeartbeat(s, a, now, rnd) /\ UNCHANGED <<steps, arbVars, bleVars>>
    \/ \E s \in Sessions, a \in FewCommandArgs, now \in Clock, rnd \in Rands :
          nEnc < MaxEncodes /\ EncodeCommand(s, a, now, rnd) /\ UNCHANGED <<steps, arbVars, bleVars>>
    \/ \E s \in Sessions, a \in FewResponseArgs, now \in Clock, rnd \in Rands :
          nEnc < MaxEncodes /\ EncodeResponse(s, a, now, rnd) /\ UNCHANGED <<steps, arbVars, bleVars>>
    \/ \E s \in Sessions : \E x \in DecodeInputs : Decode(s, x) /\ UNCHANGED <<steps, arbVars, bleVars>>

SpecTamper == Init /\ [][NextTamper]_vars

\* the earliest clock reading
SeqClock == {n \in Clock : \A m \in Clock : n <= m}

NextLife ==
    \/ \E s \in Sessions : nextKey <= MaxLifeKeyGens /\ CreateKex(s) /\ UNCHANGED <<steps, arbVars, bleVars>>
    \/ \E s \in Sessions : \E x \in KexInputs(s) : ProcessKex(s, x) /\ UNCHANGED <<steps, arbVars, bleVars>>
    \/ \E s \in Sessions, a \in FewTelemetryArgs, now \in SeqClock, rnd \in Rands :
          nEnc < MaxEncodes /\ EncodeTelemetry(s, a, now, rnd) /\ UNCHANGED <<steps, arbVars, bleVars>>
    \/ \E s \in Sessions, a \in FewAlertArgs, now \in SeqClock, rnd \in Rands :
          nEnc < MaxEncodes /\ EncodeAlert(s, a, now, rnd) /\ UNCHANGED <<steps, arbVars, bleVars>>
    \/ \E s \in Sessions, a \in FewHeartbeatArgs, now \in SeqClock, rnd \in Rands :
          nEnc < MaxEncodes /\ EncodeHeartbeat(s, a, now, rnd) /\ UNCHANGED <<steps, arbVars, bleVars>>
    \/ \E s \in Sessions, a \in FewCommandArgs, now \in SeqClock, rnd \in Rands :
          nEnc < MaxEncodes /\ EncodeCommand(s, a, now, rnd) /\ UNCHANGED <<steps, arbVars, bleVars>>
    \/ \E s \in Sessions, a \in FewResponseArgs, now \in SeqClock, rnd \in Rands :
          nEnc < MaxEncodes /\ EncodeResponse(s, a, now, rnd) /\ UNCHANGED <<steps, arbVars, bleVars>>
    \/ \E s \in Sessions : \E x \in DecodeSent : Decode(s, x) /\ UNCHANGED <<steps, arbVars, bleVars>>

SpecLife == Init /\ [][NextLife]_vars

NextReplay ==
    \/ \E s \in Sessions : FirstKex(s) /\ CreateKex(s) /\ UNCHANGED <<steps, arbVars, bleVars>>
    \/ \E s \in Sessions : \E x \in KexWhole(s) : ProcessKex(s, x) /\ UNCHANGED <<steps, arbVars, bleVars>>
    \/ \E s \in Sessions, a \in FewTelemetryArgs, now \in SeqClock, rnd \in Rands :
          nEnc < MaxReplayEncodes /\ EncodeTelemetry(s, a, now, rnd) /\ UNCHANGED <<steps, arbVars, bleVars>>
    \/ \E s \in Sessions, a \in FewAlertArgs, now \in SeqClock, rnd \in Rands :
          nEnc < MaxReplayEncodes /\ EncodeAlert(s, a, now, rnd) /\ UNCHANGED <<steps, arbVars, bleVars>>
    \/ \E s \in Sessions, a \in FewHeartbeatArgs, now \in SeqClock, rnd \in Rands :
          nEnc < MaxReplayEncodes /\ EncodeHeartbeat(s, a, now, rnd) /\ UNCHANGED <<steps, arbVars, bleVars>>
    \/ \E s \in Sessions, a \in FewCommandArgs, now \in SeqClock, rnd \in Rands :
          nEnc < MaxReplayEncodes /\ EncodeCommand(s, a, now, rnd) /\ UNCHANGED <<steps, arbVars, bleVars>>
    \/ \E s \in Sessions, a \in FewResponseArgs, now \in SeqClock, rnd \in Rands :
          nEnc < MaxReplayEncodes /\ EncodeResponse(s, a, now, rnd) /\ UNCHANGED <<steps, arbVars, bleVars>>
    \/ \E s \in Sessions : \E x \in DecodeKept : Decode(s, x) /\ UNCHANGED <<steps, arbVars, bleVars>>

SpecReplay == Init /\ [][NextReplay]_vars

\* the client holds a key and has encode_* calls left
SeqReady == sess["client"].encryption.aes_key # {} /\ nEnc < MaxSeqEncodes

NextSeq ==
    \/ \E s \in Sessions : FirstKex(s) /\ CreateKex(s) /\ UNCHANGED <<steps, arbVars, bleVars>>
    \/ \E s \in Sessions : \E x \in KexWhole(s) : ProcessKex(s, x) /\ UNCHANGED <<steps, arbVars, bleVars>>
    \/ \E a \in FewTelemetryArgs, now \in SeqClock, rnd \in Rands :
          SeqReady /\ EncodeTelemetry("client", a, now, rnd) /\ UNCHANGED <<steps, arbVars, bleVars>>
    \/ \E a \in FewAlertArgs, now \in SeqClock, rnd \in Rands :
          SeqReady /\ EncodeAlert("client", a, now, rnd) /\ UNCHANGED <<steps, arbVars, bleVars>>
    \/ \E a \in FewHeartbeatArgs, now \in SeqClock, rnd \in Rands :
          SeqReady /\ EncodeHeartbeat("client", a, now, rnd) /\ UNCHANGED <<steps, arbVars, bleVars>>
    \/ \E a \in FewCommandArgs, now \in SeqClock, rnd \in Rands :
          SeqReady /\ EncodeCommand("client", a, now, rnd) /\ UNCHANGED <<steps, arbVars, bleVars>>
    \/ \E a \in FewResponseArgs, now \in SeqClock, rnd \in Rands :
          SeqReady /\ EncodeResponse("client", a, now, rnd) /\ UNCHANGED <<steps, arbVars, bleVars>>

SpecSeq == Init /\ [][NextSeq]_vars

\* the nonce counter two calls before it wraps: 2^32 - 2
NearWrap == U32(65535, 65534)

\* the sessions after client.create_key_exchange_packet (key 1),
\* server.create_key_exchange_packet (key 2), each processing the other's
\* packet, and 2^32 - 2 encode_* calls by the client; of the (key, nonce)
\* pairs used so far nonces holds the first, made at one of the clock
\* readings with one of the random fills
InitNonce ==
    /\ sess = [s \in Sessions |->
                 IF s = "client"
                 THEN [encryption |-> [aes_key |-> {1, 2}, private_key |-> 1,
                                       public_key |-> 1, counter |-> NearWrap],
                       sequence_num |-> 255]
                 ELSE [encryption |-> [aes_key |-> {1, 2}, private_key |-> 2,
                                       public_key |-> 2, counter |-> U32(0, 0)],
                       sequence_num |-> 1]]
    /\ nextKey = 3
    /\ kexOut = [s \in Sessions |->
                   Packet(<<CURRENT, KEY_EXCHANGE, 0, 0>>,
                          PubBody(IF s = "client" THEN 1 ELSE 2))]
    /\ wire = NoWire
    /\ last = NoLast
    /\ nEnc = 0
    /\ \E now \in Clock, rnd \in Rands :
          nonces = [s \in Sessions |->
                      IF s = "client"
                      THEN << <<{1, 2}, <<now, Inc32(U32(0, 0)), rnd>> >> >>
                      ELSE <<>>]
    /\ seq0 = [s \in Sessions |-> IF s = "client" THEN 1 ELSE -1]
    /\ authFailed = [s \in Sessions |-> FALSE]
    /\ wireBefore = NoWire
    /\ processed = [s \in Sessions |-> kexOut[Peer(s)]]
    /\ steps = <<>>
    /\ InitArb({"localhost"})
    /\ InitSrv /\ InitCli /\ InitAgent

NextNonce ==
    \/ \E a \in FewTelemetryArgs, now \in Clock, rnd \in Rands :
          nEnc < MaxNonceEncodes /\ EncodeTelemetry("client", a, now, rnd) /\ UNCHANGED <<steps, arbVars, bleVars>>
    \/ \E a \in FewAlertArgs, now \in Clock, rnd \in Rands :
          nEnc < MaxNonceEncodes /\ EncodeAlert("client", a, now, rnd) /\ UNCHANGED <<steps, arbVars, bleVars>>
    \/ \E a \in FewHeartbeatArgs, now \in Clock, rnd \in Rands :
          nEnc < MaxNonceEncodes /\ EncodeHeartbeat("client", a, now, rnd) /\ UNCHANGED <<steps, arbVars, bleVars>>
    \/ \E a \in FewCommandArgs, now \in Clock, rnd \in Rands :
          nEnc < MaxNonceEncodes /\ EncodeCommand("client", a, now, rnd) /\ UNCHANGED <<steps, arbVars, bleVars>>
    \/ \E a \in FewResponseArgs, now \in Clock, rnd \in Rands :
          nEnc < MaxNonceEncodes /\ EncodeResponse("client", a, now, rnd) /\ UNCHANGED <<steps, arbVars, bleVars>>
    \/ \E x \in DecodeSent : Decode("server", x) /\ UNCHANGED <<steps, arbVars, bleVars>>

SpecNonce == InitNonce /\ [][NextNonce]_vars

InitTicks == InitProto /\ InitArb({"AUTO", "localhost"}) /\ InitSrv /\ InitCli /\ InitAgent

NextTicks ==
    \/ \E mq \in MqttOutcomes, bl \in BleOutcomes :
          CheckConnectivity(mq, bl) /\ UNCHANGED <<protoVars, bleVars>>
    \/ nCalls < MaxCalls /\ StartMonitoring("handler") /\ UNCHANGED <<protoVars, bleVars>>
    \/ \E w \in Workers : LoopTest(w) /\ UNCHANGED <<protoVars, bleVars>>
    \/ \E w \in Workers, mq \in MqttOutcomes, bl \in BleOutcomes :
          nTicks < MaxTicks /\ Check(w, mq, bl) /\ UNCHANGED <<protoVars, bleVars>>
    \/ \E w \in Workers : Compare(w) /\ UNCHANGED <<protoVars, bleVars>>
    \/ \E w \in Workers : ReadOld(w) /\ UNCHANGED <<protoVars, bleVars>>
    \/ \E w \in Workers : WriteMode(w) /\ UNCHANGED <<protoVars, bleVars>>
    \/ \E w \in Workers, raised \in BOOLEAN : Call(w, raised) /\ UNCHANGED <<protoVars, bleVars>>
    \/ \E w \in Workers : Wait(w) /\ UNCHANGED <<protoVars, bleVars>>

SpecTicks == InitTicks /\ [][NextTicks]_vars

\* what an agent's write can carry: its key-exchange packet, or nothing
Written(p) == {peerOut[p], NoPacket}

\* a session holding a key the server never agreed on, and the messages it
\* makes
Stranger == [BCPProtocol EXCEPT !.encryption.aes_key = {98, 99}]
Foreign ==
    {encode_alert(Stranger, 255, Letters(3), 1700000000, 0).val,
     encode_response(Stranger, 7, 0, <<0, 255>>, 1700000000, 0).val}
\* what a write to the telemetry, alert or response characteristic can carry
Frames(p) == Written(p) \cup Foreign

NextSrv ==
    \/ \E p \in Peers : nSrv < MaxSrvCalls /\ PeerCreateKex(p) /\ UNCHANGED <<protoVars, arbVars, cliVars, agentVars>>
    \/ \E p \in Peers : \E value \in Written(p) :
          nSrv < MaxSrvCalls /\ OnKeyExchange(p, value) /\ UNCHANGED <<protoVars, arbVars, cliVars, agentVars>>
    \/ \E p \in Peers : nSrv < MaxSrvCalls /\ PeerProcessKex(p) /\ UNCHANGED <<protoVars, arbVars, cliVars, agentVars>>
    \/ \E p \in Peers : \E value \in Frames(p) :
          nSrv < MaxSrvCalls /\ OnTelemetryWrite(p, value) /\ UNCHANGED <<protoVars, arbVars, cliVars, agentVars>>
    \/ \E p \in Peers : \E value \in Frames(p) :
          nSrv < MaxSrvCalls /\ OnAlertWrite(p, value) /\ UNCHANGED <<protoVars, arbVars, cliVars, agentVars>>
    \/ \E p \in Peers : \E value \in Frames(p) :
          nSrv < MaxSrvCalls /\ OnResponseWrite(p, value) /\ UNCHANGED <<protoVars, arbVars, cliVars, agentVars>>

SpecSrv == Init /\ [][NextSrv]_vars

NextCli ==
    \/ \E e \in ConnectRuns : nCli < MaxCliCalls /\ Connect(e) /\ UNCHANGED <<protoVars, arbVars, srvVars, agentVars>>
    \/ nCli < MaxCliCalls /\ Disconnect /\ UNCHANGED <<protoVars, arbVars, srvVars, agentVars>>
    \/ \E a \in FewTelemetryArgs, now \in SeqClock, rnd \in Rands, w \in {"ok", "raises"} :
          nCli < MaxCliCalls /\ send_telemetry(a, now, rnd, w) /\ UNCHANGED <<protoVars, arbVars, srvVars, agentVars>>
    \/ \E a \in FewAlertArgs, now \in SeqClock, rnd \in Rands, w \in {"ok", "raises"} :
          nCli < MaxCliCalls /\ send_alert(a, now, rnd, w) /\ UNCHANGED <<protoVars, arbVars, srvVars, agentVars>>
    \/ \E a \in FewHeartbeatArgs, now \in SeqClock, rnd \in Rands, w \in {"ok", "raises"} :
          nCli < MaxCliCalls /\ send_heartbeat(a, now, rnd, w) /\ UNCHANGED <<protoVars, arbVars, srvVars, agentVars>>
    \/ LinkDrop /\ UNCHANGED <<protoVars, arbVars, srvVars, agentVars>>

SpecCli == Init /\ [][NextCli]_vars

\* probe outcomes, one pair for each mode check_connectivity returns
FewOutcomes == {<<"connected", "notfound">>, <<"refused", "found">>,
                <<"exception", "looperror">>}
Handlers == {"handler", "other"}

NextArb ==
    \/ \E cb \in Handlers : nCalls < MaxCalls /\ StartMonitoring(cb) /\ UNCHANGED <<protoVars, bleVars>>
    \/ nCalls < MaxCalls /\ StopMonitoring /\ UNCHANGED <<protoVars, bleVars>>
    \/ Join /\ UNCHANGED <<protoVars, bleVars>>
    \/ \E mode \in ConnectionMode : nCalls < MaxCalls /\ ForceMode(mode) /\ UNCHANGED <<protoVars, bleVars>>
    \/ ForceRead /\ UNCHANGED <<protoVars, bleVars>>
    \/ ForceWrite /\ UNCHANGED <<protoVars, bleVars>>
    \/ \E raised \in BOOLEAN : ForceCall(raised) /\ UNCHANGED <<protoVars, bleVars>>
    \/ \E w \in Workers : LoopTest(w) /\ UNCHANGED <<protoVars, bleVars>>
    \/ \E w \in Workers, o \in FewOutcomes :
          nTicks < MaxArbTicks /\ Check(w, o[1], o[2]) /\ UNCHANGED <<protoVars, bleVars>>
    \/ \E w \in Workers : Compare(w) /\ UNCHANGED <<protoVars, bleVars>>
    \/ \E w \in Workers : ReadOld(w) /\ UNCHANGED <<protoVars, bleVars>>
    \/ \E w \in Workers : WriteMode(w) /\ UNCHANGED <<protoVars, bleVars>>
    \/ \E w \in Workers, raised \in BOOLEAN : Call(w, raised) /\ UNCHANGED <<protoVars, bleVars>>
    \/ \E w \in Workers : Wait(w) /\ UNCHANGED <<protoVars, bleVars>>

SpecArb == Init /\ [][NextArb]_vars

\* ble_loop's alert: AlertCode.SYSTEM and the nine characters of "High temp"
HighTemp == {[alert_code |-> 255, message |-> Letters(9)]}

NextAgent ==
    \/ \E o \in FewOutcomes : Main(o[1], o[2]) /\ UNCHANGED <<protoVars, srvVars, cliVars>>
    \/ \E ok \in BOOLEAN : MqttConnect(ok) /\ UNCHANGED <<protoVars, arbVars, srvVars, cliVars>>
    \/ MqttStart /\ UNCHANGED <<protoVars, srvVars, cliVars>>
    \/ agent.published < MaxPublishes /\ MqttPublish /\ UNCHANGED <<protoVars, arbVars, srvVars, cliVars>>
    \/ \E e \in ConnectRuns : BleConnect(e) /\ UNCHANGED <<protoVars, arbVars, srvVars>>
    \/ BleStart /\ UNCHANGED <<protoVars, srvVars, cliVars>>
    \/ BleLoop /\ UNCHANGED <<protoVars, arbVars, srvVars, cliVars>>
    \/ \E a \in FewTelemetryArgs, now \in SeqClock, rnd \in Rands, w \in {"ok", "raises"} :
          nCli < MaxAgentCalls /\ BleTelemetry(a, now, rnd, w) /\ UNCHANGED <<protoVars, arbVars, srvVars>>
    \/ \E a \in FewHeartbeatArgs, now \in SeqClock, rnd \in Rands, w \in {"ok", "raises"} :
          nCli < MaxAgentCalls /\ BleHeartbeat(a, now, rnd, w) /\ UNCHANGED <<protoVars, arbVars, srvVars>>
    \/ \E hot \in BOOLEAN, a \in HighTemp, now \in SeqClock, rnd \in Rands, w \in {"ok", "raises"} :
          nCli < MaxAgentCalls /\ BleAlert(hot, a, now, rnd, w) /\ UNCHANGED <<protoVars, arbVars, srvVars>>
    \/ LinkDrop /\ agent.pc \in BlePcs /\ UNCHANGED <<protoVars, arbVars, srvVars, agentVars>>
    \/ \E w \in Workers : LoopTest(w) /\ UNCHANGED <<protoVars, bleVars>>
    \/ \E w \in Workers, o \in FewOutcomes :
          nTicks < MaxTicks /\ Check(w, o[1], o[2]) /\ UNCHANGED <<protoVars, bleVars>>
    \/ \E w \in Workers : Compare(w) /\ UNCHANGED <<protoVars, bleVars>>
    \/ \E w \in Workers : ReadOld(w) /\ UNCHANGED <<protoVars, bleVars>>
    \/ \E w \in Workers : WriteMode(w) /\ UNCHANGED <<protoVars, bleVars>>
    \/ \E w \in Workers : Handle(w) /\ UNCHANGED <<protoVars, srvVars, cliVars>>
    \/ \E w \in Workers : Wait(w) /\ UNCHANGED <<protoVars, bleVars>>

SpecAgent == Init /\ [][NextAgent]_vars

NextModes ==
    \/ \E o \in FewOutcomes : CheckConnectivity(o[1], o[2]) /\ UNCHANGED <<protoVars, bleVars>>
    \/ GetCurrentMode /\ UNCHANGED <<protoVars, bleVars>>
    \/ nCalls < MaxModeCalls /\ StartMonitoring("handler") /\ UNCHANGED <<protoVars, bleVars>>
    \/ nCalls < MaxModeCalls /\ StopMonitoring /\ UNCHANGED <<protoVars, bleVars>>
    \/ Join /\ UNCHANGED <<protoVars, bleVars>>
    \/ \E mode \in ConnectionMode : nCalls < MaxModeCalls /\ ForceMode(mode) /\ UNCHANGED <<protoVars, bleVars>>
    \/ ForceRead /\ UNCHANGED <<protoVars, bleVars>>
    \/ ForceWrite /\ UNCHANGED <<protoVars, bleVars>>
    \/ \E raised \in BOOLEAN : ForceCall(raised) /\ UNCHANGED <<protoVars, bleVars>>
    \/ \E w \in Workers : LoopTest(w) /\ UNCHANGED <<protoVars, bleVars>>
    \/ \E w \in Workers, o \in FewOutcomes :
          nTicks < MaxArbTicks /\ Check(w, o[1], o[2]) /\ UNCHANGED <<protoVars, bleVars>>
    \/ \E w \in Workers : Compare(w) /\ UNCHANGED <<protoVars, bleVars>>
    \/ \E w \in Workers : ReadOld(w) /\ UNCHANGED <<protoVars, bleVars>>
    \/ \E w \in Workers : WriteMode(w) /\ UNCHANGED <<protoVars, bleVars>>
    \/ \E w \in Workers, raised \in BOOLEAN : Call(w, raised) /\ UNCHANGED <<protoVars, bleVars>>
    \/ \E w \in Workers : Wait(w) /\ UNCHANGED <<protoVars, bleVars>>

SpecModes == Init /\ [][NextModes]_vars

\* the probe outcomes of SpecArbFair: neither transport is reachable
FairOutcomes == {<<"refused", "notfound">>}

\* a step of worker w in _monitor_loop
WorkerStep(w) ==
    \/ LoopTest(w)
    \/ \E o \in FairOutcomes : Check(w, o[1], o[2])
    \/ Compare(w)
    \/ ReadOld(w)
    \/ WriteMode(w)
    \/ \E raised \in BOOLEAN : Call(w, raised)
    \/ Wait(w)

NextArbFair ==
    \/ \E cb \in Handlers : nCalls < MaxFairCalls /\ StartMonitoring(cb) /\ UNCHANGED <<protoVars, bleVars>>
    \/ nCalls < MaxFairCalls /\ StopMonitoring /\ UNCHANGED <<protoVars, bleVars>>
    \/ Join /\ UNCHANGED <<protoVars, bleVars>>
    \/ \E w \in Workers : WorkerStep(w) /\ UNCHANGED <<protoVars, bleVars>>

\* the threads of the workers are scheduled again and again; every probe and
\* every handler invocation returns
SpecArbFair ==
    Init /\ [][NextArbFair]_vars /\ \A w \in Workers : WF_vars(WorkerStep(w) /\ UNCHANGED <<protoVars, bleVars>>)

\* the reachability of the two transports has settled: the probes of
\* check_connectivity meet what the probes of the tick before met
Settled(w, mq, bl) == nTicks = MaxTicks /\ Probed(w, mq, bl) = probe

\* a step of worker w in _monitor_loop: its first MaxTicks ticks meet any
\* outcomes, the later ones the outcomes of the tick before
ConvStep(w) ==
    \/ LoopTest(w)
    \/ \E mq \in MqttOutcomes, bl \in BleOutcomes : nTicks < MaxTicks /\ Check(w, mq, bl)
    \/ \E mq \in MqttOutcomes, bl \in BleOutcomes : Settled(w, mq, bl) /\ Check(w, mq, bl)
    \/ Compare(w)
    \/ ReadOld(w)
    \/ WriteMode(w)
    \/ \E raised \in BOOLEAN : Call(w, raised)
    \/ Wait(w)

NextConv ==
    \/ nCalls < MaxCalls /\ StartMonitoring("handler") /\ UNCHANGED <<protoVars, bleVars>>
    \/ \E w \in Workers : LoopTest(w) /\ UNCHANGED <<protoVars, bleVars>>
    \/ \E w \in Workers, mq \in MqttOutcomes, bl \in BleOutcomes :
          nTicks < MaxTicks /\ Check(w, mq, bl) /\ UNCHANGED <<protoVars, bleVars>>
    \/ \E w \in Workers, mq \in MqttOutcomes, bl \in BleOutcomes :
          Settled(w, mq, bl) /\ Check(w, mq, bl) /\ UNCHANGED <<protoVars, bleVars>>
    \/ \E w \in Workers : Compare(w) /\ UNCHANGED <<protoVars, bleVars>>
    \/ \E w \in Workers : ReadOld(w) /\ UNCHANGED <<protoVars, bleVars>>
    \/ \E w \in Workers : WriteMode(w) /\ UNCHANGED <<protoVars, bleVars>>
    \/ \E w \in Workers, raised \in BOOLEAN : Call(w, raised) /\ UNCHANGED <<protoVars, bleVars>>
    \/ \E w \in Workers : Wait(w) /\ UNCHANGED <<protoVars, bleVars>>

\* the worker's thread is scheduled again and again; every probe and every
\* handler invocation returns
SpecConv ==
    InitTicks /\ [][NextConv]_vars /\ \A w \in Workers : WF_vars(ConvStep(w) /\ UNCHANGED <<protoVars, bleVars>>)

(***************************************************************************)
(* Claims about the key exchange (SpecKex).                                *)
(***************************************************************************)
aes_key(s) == sess[s].encryption.aes_key
Keyed(s) == aes_key(s) # {}

\* the first four calls were the documented handshake, each on a whole packet
DocumentedOrder ==
    /\ Len(steps) = 4
    /\ <<steps[1].op, steps[1].who>> = <<"create_key_exchange_packet", "client">>
    /\ <<steps[2].op, steps[2].who>> = <<"process_key_exchange", "server">>
    /\ steps[2].whole
    /\ <<steps[3].op, steps[3].who>> = <<"create_key_exchange_packet", "server">>
    /\ <<steps[4].op, steps[4].who>> = <<"process_key_exchange", "client">>
    /\ steps[4].whole

\* C1: when two fresh sessions run client.create_key_exchange_packet,
\* server.process_key_exchange, server.create_key_exchange_packet,
\* client.process_key_exchange in this order, no call raises, and after the
\* fourth call both sessions hold a derived key, the same one.
C1_HandshakeInOrder ==
    (DocumentedOrder /\ last.op = "process_key_exchange" /\ last.who = "client"
        /\ nextKey = 3)
    => /\ \A i \in 1..4 : steps[i].ok
       /\ Keyed("client") /\ Keyed("server")
       /\ aes_key("client") = aes_key("server")

\* each session's key comes from the key-exchange packet its peer emitted last
Exchanged ==
    \A s \in Sessions : Keyed(s) /\ processed[s] = kexOut[Peer(s)]

\* C5: in whatever order two sessions call create_key_exchange_packet and
\* process_key_exchange on each other's latest key-exchange packet, once both
\* hold a key derived from the other's latest packet the two keys are equal.
C5_KeysConverge == Exchanged => aes_key("client") = aes_key("server")

(***************************************************************************)
(* Claims about encoding and decoding (Spec, SpecTamper).                  *)
(***************************************************************************)
\* the last call was decode_packet by a session holding the key the packet
\* on the wire was sealed with, on what the channel made of that packet
DecodedWire ==
    /\ last.op = "decode_packet"
    /\ wire.packet # NoPacket
    /\ last.base = wire.packet
    /\ last.pre.encryption.aes_key = wire.packet.body.ct.key

\* a value in thousandths and its decoded value in hundredths agree up to the
\* digit int(x * 100) drops
Near(x, y) == x - 10 * y \in 0..9
NearOpt(x, y) == IF x = <<>> THEN y = <<>> ELSE y # <<>> /\ Near(x[1], y[1])

\* the decoded message val has the type and the field values of the call msg
SameFields(msg, val) ==
    /\ val.type = msg.type
    /\ IF msg.type = "telemetry"
       THEN /\ Near(msg.args.cpu_percent, val.cpu_percent)
            /\ Near(msg.args.ram_percent, val.ram_percent)
            /\ NearOpt(msg.args.temp_c, val.cpu_temp)
            /\ val.battery_percent = msg.args.battery_percent
            /\ val.uptime_seconds = msg.args.uptime_seconds
       ELSE IF msg.type = "alert"
       THEN /\ val.alert_code = msg.args.alert_code
            /\ val.message = msg.args.message
       ELSE IF msg.type = "heartbeat"
       THEN val.status = msg.args.status
       ELSE IF msg.type = "command"
       THEN /\ val.command_code = msg.args.command_code
            /\ val.command_id = msg.args.command_id
       ELSE /\ val.command_id = msg.args.command_id
            /\ val.status_code = msg.args.status_code
            /\ val.data = msg.args.data

\* C2: after a handshake, decode_packet on the receiver applied to the packet
\* the sender's encode_* produced succeeds and returns the message type and
\* field values of the call (up to the x100 fixed-point rounding), with
\* 'sequence' equal to the sender's sequence number at encode time.
C2_RoundTrip ==
    (DecodedWire /\ last.how = NoHow /\ last.who = Peer(wire.sender))
    => /\ last.ok
       /\ SameFields(wire.msg, last.val)
       /\ last.val.sequence = wire.seq

\* the last call decoded the wire packet with one bit of ciphertext or tag
\* inverted and nothing else changed
DecodedFlipped ==
    /\ DecodedWire
    /\ last.how.flip \in 1..CipherBits(wire.packet)
    /\ last.how.i = 0 /\ last.how.cut = -1

\* C3: a packet that differs from an encode_* packet in exactly one bit of
\* ciphertext or tag makes decode_packet (under the agreed key) fail with the
\* authentication-failure error, and return no message.
C3_TamperDetected ==
    DecodedFlipped => ~last.ok /\ last.err = AuthenticationFailure /\ last.val = NoVal

C3_Witness == DecodedFlipped /\ last.err = AuthenticationFailure

\* the last call decoded the wire packet with one header byte changed and
\* nothing else changed
DecodedHdrChanged ==
    /\ DecodedWire
    /\ last.how.i \in 1..HdrLen
    /\ last.input.hdr[last.how.i] # wire.packet.hdr[last.how.i]
    /\ last.how.flip = 0 /\ last.how.cut = -1

\* C4: decode_packet (under the agreed key) rejects every packet
\* obtained from an encode_* packet by changing one of its 4 header bytes.
C4_HeaderTamperRejected == DecodedHdrChanged => ~last.ok

\* C10 as claimed: decode_packet fails with the unsupported-version error on
\* every packet whose first byte is not 1, whatever its length.
C10_VersionAnyLength ==
    (last.op = "decode_packet" /\ last.input.len >= 1 /\ last.input.hdr[1] # CURRENT)
    => ~last.ok /\ last.err = UnsupportedVersion

\* C10 as amended: ... on every packet of at least 4 bytes whose first byte
\* is not 1, whatever its other bytes and whether the session is keyed.
C10_VersionChecked ==
    (last.op = "decode_packet" /\ last.input.len >= HdrLen
        /\ last.input.hdr[1] # CURRENT)
    => ~last.ok /\ last.err = UnsupportedVersion

C10_Witness ==
    /\ last.op = "decode_packet" /\ last.input.len >= MinEncLen
    /\ last.input.hdr[1] # CURRENT
    /\ last.pre.encryption.aes_key # {}
    /\ last.err = UnsupportedVersion

(***************************************************************************)
(* Claims about sequence numbers (SpecSeq) and nonces (SpecNonce).         *)
(***************************************************************************)
EncodeOps == {"encode_telemetry", "encode_alert", "encode_heartbeat",
              "encode_command", "encode_response"}

\* C8: a successful encode_* call on a keyed session takes sequence_num from
\* s to (s + 1) mod 256; sequence_num stays in 0..255; after n successful
\* encodes it is the value before the first of them plus n, mod 256, so
\* after exactly 256 it is that value again.
C8_SequenceCounter ==
    /\ \A s \in Sessions : sess[s].sequence_num \in 0..255
    /\ (last.op \in EncodeOps /\ last.ok)
          => /\ last.pre.encryption.aes_key # {}
             /\ sess[last.who].sequence_num = (last.pre.sequence_num + 1) % 256
    /\ \A s \in Sessions :
          seq0[s] # -1
          => /\ sess[s].sequence_num = (seq0[s] + Len(nonces[s])) % 256
             /\ Len(nonces[s]) = 256 => sess[s].sequence_num = seq0[s]

C8_Witness ==
    /\ last.op \in EncodeOps /\ last.ok
    /\ Len(nonces["client"]) = 256
    /\ sess["client"].sequence_num = seq0["client"]

\* C9: within one session and under one key no two encrypt calls use the
\* same nonce, whatever the clock readings and random fills, also when the
\* 32-bit nonce counter wraps.
C9_NoncesUnique ==
    \A s \in Sessions : \A i, j \in 1..Len(nonces[s]) :
        i < j => nonces[s][i] # nonces[s][j]

(***************************************************************************)
(* Claims about the ConnectivityManager (SpecTicks).                       *)
(***************************************************************************)
\* the primary probe of the last check_connectivity call succeeded: an
\* address was configured and the TCP connection was made
PrimaryOk == mqtt_broker # "AUTO" /\ probe.mqtt = "connected"
\* the fallback probe of that call succeeded
FallbackOk == probe.ble = "found"

\* C6: whatever the two probes meet (success, failure or an exception),
\* check_connectivity returns MQTT when the primary probe succeeds, BLE when
\* it fails and the fallback probe succeeds, OFFLINE when both fail.
C6_Priority ==
    probe.by # -1
    => /\ PrimaryOk => probe.mode = MQTT
       /\ (~PrimaryOk /\ FallbackOk) => probe.mode = BLE
       /\ (~PrimaryOk /\ ~FallbackOk) => probe.mode = OFFLINE

C6_Witness ==
    /\ probe.by # -1
    /\ probe.mqtt = "exception" /\ probe.ble = "found" /\ probe.mode = BLE

\* C7: starting from OFFLINE, a tick of the monitor loop whose evaluated mode
\* differs from current_mode invokes the handler exactly once, with the
\* previous and the new mode, which differ; a tick whose evaluated mode
\* equals current_mode invokes it zero times; each notification starts from
\* the mode the one before it ended in, so none is repeated while the mode
\* is unchanged.
C7_NotifiedOncePerChange ==
    /\ \A w \in Workers :
          worker[w].pc = "wait"
          => /\ worker[w].invoked = IF worker[w].differed THEN 1 ELSE 0
             /\ current_mode = worker[w].new_mode
             /\ worker[w].differed
                  => /\ calls # <<>>
                     /\ calls[Len(calls)].by = w
                     /\ calls[Len(calls)].new = worker[w].new_mode
    /\ \A i \in 1..Len(calls) :
          /\ calls[i].old # calls[i].new
          /\ calls[i].old = IF i = 1 THEN OFFLINE ELSE calls[i - 1].new

C7_Witness ==
    /\ Len(calls) = 2
    /\ nTicks = 3
    /\ \E w \in Workers : worker[w].pc = "wait" /\ ~worker[w].differed
                          /\ worker[w].invoked = 0

(***************************************************************************)
(* Claims about the key a session holds (SpecTamper, SpecLife).            *)
(***************************************************************************)
\* the last call was made on a session without a derived key
OnUnkeyed == last.op # "none" /\ last.pre.encryption.aes_key = {}

\* the last call was decode_packet on a packet of at least 16 bytes with
\* version 1 and a known message type other than KEY_EXCHANGE
DecodedEncryptedKind ==
    /\ last.op = "decode_packet"
    /\ last.input.len >= MinEncLen
    /\ last.input.hdr[1] = CURRENT
    /\ last.input.hdr[2] \in MessageType \ {KEY_EXCHANGE}

\* C11: on a session without a derived key every encode_* call, and every
\* decode_packet call on a packet of at least 16 bytes with version 1 and a
\* known non-key-exchange type, fails with the key-not-established error and
\* returns nothing.
C11_KeyRequired ==
    (OnUnkeyed /\ (last.op \in EncodeOps \/ DecodedEncryptedKind))
    => /\ ~last.ok
       /\ last.err = KeyNotEstablished
       /\ last.val = NoVal

C11_Witness ==
    /\ OnUnkeyed /\ DecodedEncryptedKind
    /\ last.input.body.t = "sealed"
    /\ last.err = KeyNotEstablished

\* C12: a session that holds a derived key holds one in every later state,
\* whatever call is made next, successful or failing.
C12_KeyedStays ==
    [][\A s \in Sessions : Keyed(s) => sess'[s].encryption.aes_key # {}]_vars

C12_Witness ==
    /\ last.op = "process_key_exchange" /\ ~last.ok
    /\ last.pre.encryption.aes_key # {}
    /\ Keyed(last.who)

(***************************************************************************)
(* Claims about starting, stopping and forcing (SpecArb, SpecArbFair).     *)
(***************************************************************************)
\* C13: a start_monitoring call made while is_monitoring is true returns
\* without error, creates no worker, leaves the registered handler as it is
\* and does not clear the stop signal.
C13_StartIdempotent ==
    [][(nCalls' = nCalls + 1 /\ caller'.op = "start_monitoring" /\ is_monitoring)
        => /\ caller'.pc = "idle"
           /\ worker' = worker
           /\ nextWorker' = nextWorker
           /\ monitor_thread' = monitor_thread
           /\ callback' = callback
           /\ stop_event' = stop_event
           /\ is_monitoring']_vars

C13_Witness ==
    /\ caller.op = "start_monitoring" /\ caller.noop
    /\ caller.had # callback
    /\ is_monitoring

\* C14: a worker that is running when stop_monitoring is called leaves its
\* loop in the end, every probe and handler invocation returning.
C14_StopEndsWorker ==
    \A w \in Workers : worker[w].asked ~> worker[w].pc = "done"

\* C15: force_mode(m) sets current_mode to m and invokes the registered
\* handler exactly once, with (previous mode, m), if and only if a handler is
\* registered and m differs from the previous mode; else not at all.
C15_ForceNotifies ==
    /\ [][(caller.pc = "write" /\ caller'.pc # "write")
            => current_mode' = caller.mode]_vars
    /\ [](caller.op = "force_mode" /\ caller.pc = "idle"
            => /\ caller.invoked =
                     IF caller.had # "none" /\ caller.old_mode # caller.mode
                     THEN 1 ELSE 0
               /\ caller.invoked = 1
                     => \E i \in 1..Len(calls) :
                           /\ calls[i].by = 0
                           /\ calls[i].old = caller.old_mode
                           /\ calls[i].new = caller.mode)

C15_Witness ==
    /\ caller.op = "force_mode" /\ caller.pc = "idle"
    /\ caller.invoked = 1
    /\ caller.old_mode # caller.mode

\* C16: when the handler raises during a tick the worker stays in its loop,
\* current_mode keeps the new mode, and the next invocation of the handler,
\* if there is one, is for the next transition.
C16_HandlerFailureSurvived ==
    /\ \A w \in Workers : worker[w].pc # "done"
    /\ \A w \in Workers :
          (worker[w].pc = "wait" /\ worker[w].invoked = 1 /\ calls[Len(calls)].raised)
          => /\ current_mode = worker[w].new_mode
             /\ calls[Len(calls)].new = current_mode
    /\ \A i \in 1..Len(calls) :
          (calls[i].raised /\ i < Len(calls))
          => /\ calls[i + 1].old = calls[i].new
             /\ calls[i + 1].new # calls[i].new

C16_Witness ==
    /\ Len(calls) = 2 /\ calls[1].raised
    /\ \E w \in Workers : worker[w].pc = "wait" /\ current_mode = calls[2].new

\* C17: at most one monitor worker is alive at any time.
C17_OneWorker == Cardinality(Alive) <= 1

C18_SessionsApart == \A a \in Addresses : Cardinality(touched[a]) <= 1

(***************************************************************************)
(* Claims about the BLE client (SpecCli).                                  *)
(***************************************************************************)
SendOps == {"send_telemetry", "send_alert", "send_heartbeat"}

\* C19: a send writes an encrypted frame only if a key exchange has
\* completed since the latest connection was made; after disconnect or a
\* failed connect is_connected() is false, and until a new key exchange
\* completes every send returns False without writing.
C19_FreshHandshake ==
    /\ cliLast.wrote => fresh
    /\ (cliLast.op = "disconnect" \/ (cliLast.op = "connect" /\ ~cliLast.ret))
          => ~is_connected
    /\ (cliLast.op \in SendOps /\ cliLast.lost)
          => ~cliLast.ret /\ ~cliLast.wrote

(***************************************************************************)
(* Claims about what failing calls leave behind (SpecLife, SpecTamper).    *)
(***************************************************************************)
\* the last call was process_key_exchange on a packet shorter than 69 bytes
ProcessedShort == last.op = "process_key_exchange" /\ last.input.len < KexLen

\* C21: process_key_exchange on a packet shorter than 69 bytes fails with
\* the handshake-data-invalid error and leaves the session as it was: a
\* session without a key stays without one, a session with a key keeps it.
C21_ShortHandshakeRejected ==
    ProcessedShort
    => /\ ~last.ok
       /\ last.err = HandshakeDataInvalid
       /\ sess[last.who] = last.pre

C21_Witness ==
    /\ ProcessedShort
    /\ last.input.len = KexLen - 1
    /\ last.pre.encryption.aes_key # {}
    /\ sess[last.who].encryption.aes_key = last.pre.encryption.aes_key

\* C22: a decode_packet call, on any packet (as sent, cut short, changed in
\* transit, or a key-exchange packet) and on any session, succeeding or
\* failing, leaves the session's sequence_num, nonce counter, key pair and
\* derived key as they were.
C22_DecodeLeavesSession ==
    last.op = "decode_packet"
    => /\ sess[last.who].sequence_num = last.pre.sequence_num
       /\ sess[last.who].encryption.counter = last.pre.encryption.counter
       /\ sess[last.who].encryption.private_key = last.pre.encryption.private_key
       /\ sess[last.who].encryption.public_key = last.pre.encryption.public_key
       /\ sess[last.who].encryption.aes_key = last.pre.encryption.aes_key

C22_Witness ==
    /\ last.op = "decode_packet" /\ last.ok
    /\ last.val.type \notin {"none", "key_exchange"}
    /\ last.pre.sequence_num > 0
    /\ sess[last.who] = last.pre

\* the last call was decode_packet by s, holding a key, and failed with the
\* authentication-failure error
AuthFailed(s) ==
    /\ last.op = "decode_packet" /\ last.who = s
    /\ last.pre.encryption.aes_key # {}
    /\ ~last.ok /\ last.err = AuthenticationFailure

\* the last call was decode_packet by s on the encrypted packet its peer
\* emitted last, as sent
DecodedUntampered(s) ==
    /\ last.op = "decode_packet" /\ last.who = s
    /\ last.how = NoHow
    /\ last.base.body.t = "sealed"
    /\ last.base = wire.packet /\ wire.sender = Peer(s)

\* C23: once decode_packet has failed with the authentication-failure error
\* on a session holding a key, the session still holds the same key, and
\* every later decode_packet on a packet from the peer as sent succeeds.
C23_AuthFailureNotTerminal ==
    \A s \in Sessions :
        /\ AuthFailed(s) => sess[s].encryption.aes_key = last.pre.encryption.aes_key
        /\ (authFailed[s] /\ DecodedUntampered(s)) => last.ok

(***************************************************************************)
(* Claims about probes that fail (SpecTicks).                              *)
(***************************************************************************)
\* a probe of the last check_connectivity call ended in an exception
ProbeError ==
    \/ mqtt_broker # "AUTO" /\ probe.mqtt \in {"gaierror", "exception"}
    \/ probe.ble \in {"importerror", "exception", "looperror"}

\* C24: whatever the probes meet, exceptions included, check_connectivity
\* returns OFFLINE, MQTT or BLE and raises nothing; a probe that fails counts
\* as not reachable; the monitor loop goes on to its next tick; and in a
\* tick with a failed probe the handler is invoked only if the mode
\* evaluated differed from current_mode.
C24_ProbeFailuresSwallowed ==
    /\ probe.by # -1
       => /\ probe.mode \in ConnectionMode
          /\ ~PrimaryOk => probe.mode # MQTT
          /\ ~FallbackOk => probe.mode # BLE
    /\ \A w \in Workers :
          /\ worker[w].pc # "done"
          /\ worker[w].new_mode \in ConnectionMode
          /\ (probe.by = w /\ ProbeError /\ worker[w].pc \in {"call", "wait"})
             => /\ worker[w].new_mode = probe.mode
                /\ worker[w].invoked > 0 => worker[w].differed
                /\ worker[w].pc = "wait" /\ ~worker[w].differed => worker[w].invoked = 0

C24_Witness ==
    /\ nTicks = 2
    /\ \E w \in Workers :
          /\ probe.by = w /\ probe.mqtt = "exception" /\ probe.ble = "looperror"
          /\ worker[w].pc = "loop" /\ worker[w].new_mode = OFFLINE
          /\ current_mode = OFFLINE
          /\ Len(calls) = 2 /\ calls[2].new = OFFLINE

(***************************************************************************)
(* Claims about the order of the checks of decode_packet (SpecTamper).     *)
(***************************************************************************)
\* the last call was decode_packet on a packet too short to hold a header
DecodedNoHeader == last.op = "decode_packet" /\ last.input.len < HdrLen

\* the last call was decode_packet on a packet of 4 to 15 bytes with version
\* 1 and a known message type other than KEY_EXCHANGE
DecodedNoNonce ==
    /\ last.op = "decode_packet"
    /\ last.input.len >= HdrLen /\ last.input.len < MinEncLen
    /\ last.input.hdr[1] = CURRENT
    /\ last.input.hdr[2] \in MessageType \ {KEY_EXCHANGE}

\* C25: decode_packet fails with the malformed-frame error on every packet
\* shorter than 4 bytes, and on every packet of 4 to 15 bytes with version 1
\* and a known non-key-exchange type; the latter also on a session without a
\* key, where a decryption would have failed with key-not-established.
C25_LengthBeforeDecrypt ==
    (DecodedNoHeader \/ DecodedNoNonce)
    => /\ ~last.ok
       /\ last.err = MalformedFrame
       /\ last.err # KeyNotEstablished

C25_Witness ==
    /\ DecodedNoNonce /\ OnUnkeyed
    /\ last.input.len = MinEncLen - 1
    /\ last.err = MalformedFrame

\* the last call was decode_packet on a packet of at least 4 bytes with
\* version 1 and a message-type byte that is none of 0x01..0x06
DecodedUnknownType ==
    /\ last.op = "decode_packet"
    /\ last.input.len >= HdrLen
    /\ last.input.hdr[1] = CURRENT
    /\ last.input.hdr[2] \notin MessageType

\* C26: decode_packet on a packet of at least 4 bytes with version 1 and an
\* undefined message-type byte fails with the unknown-message-type error,
\* which is none of malformed-frame, unsupported-version, key-not-established
\* and authentication-failure, on sessions with and without a key.
C26_UnknownTypeRejected ==
    DecodedUnknownType
    => /\ ~last.ok
       /\ last.err = UnknownMessageType
       /\ last.err \notin {MalformedFrame, UnsupportedVersion, KeyNotEstablished,
                           AuthenticationFailure}

C26_Witness ==
    /\ DecodedUnknownType
    /\ last.input.len >= MinEncLen
    /\ last.pre.encryption.aes_key # {}
    /\ last.err = UnknownMessageType

(***************************************************************************)
(* Claims about the mode over time (SpecArb, SpecConv, SpecTicks,          *)
(* SpecModes).                                                             *)
(***************************************************************************)
\* C27: from the return of force_mode(m) until the caller's next
\* start_monitoring or force_mode call, no monitor worker is running and
\* current_mode is m, also when force_mode was called during a tick.
C27_ForcedModePersists ==
    (caller.pc = "idle" /\ caller.op = "force_mode")
    => /\ Alive = {}
       /\ current_mode = caller.mode

\* stop_monitoring, called while monitoring, has returned and the caller
\* has made no call since
StopReturned ==
    /\ caller.pc = "idle" /\ caller.op = "stop_monitoring" /\ ~caller.noop
    /\ ~is_monitoring

\* C34: once stop_monitoring has returned, is_monitoring being false, the
\* monitor worker writes current_mode no more and invokes the handler no
\* more, also when stop_monitoring was called during a probe or a handler
\* invocation.
C34_QuietAfterStop ==
    [][(StopReturned /\ caller' = caller)
       => /\ current_mode' = current_mode
          /\ \A w \in Workers : worker'[w].invoked = worker[w].invoked]_vars

\* C28: if monitoring stays active, every probe and handler invocation
\* returns, and what the probes meet stays the same from some tick on, then
\* from some point on current_mode is the mode check_connectivity returns
\* for it, for ever; it is so when the first tick after the outcomes settled
\* has ended.
C28_Converges ==
    /\ <>[]is_monitoring => <>[](nTicks = MaxTicks /\ current_mode = probe.mode)
    /\ [](\A w \in Workers :
            (nTicks = MaxTicks /\ worker[w].pc \in {"call", "wait", "loop"})
            => current_mode = probe.mode)

C28_Witness ==
    /\ nTicks = MaxTicks /\ is_monitoring
    /\ Len(calls) = MaxTicks
    /\ probe.mqtt = "gaierror" /\ probe.mode = BLE /\ current_mode = BLE
    /\ \E w \in Workers : worker[w].pc = "compare" /\ worker[w].new_mode = BLE

\* the modes a tick can evaluate with the configured address
Evaluable ==
    {check_connectivity(mqtt_broker, mq, bl) : mq \in MqttOutcomes, bl \in BleOutcomes}

\* C29: with a configured (non-AUTO) primary address, whatever current_mode
\* is when a tick starts, each of the other two modes is one the tick can
\* evaluate, and a tick that evaluates another mode has moved current_mode
\* to it when it ends: from each mode each other mode is one tick away.
C29_EveryModeOneTickAway ==
    \A w \in Workers :
        /\ (worker[w].pc = "check" /\ mqtt_broker # "AUTO")
           => ConnectionMode \ {current_mode} \subseteq Evaluable
        /\ worker[w].pc = "write"
           => worker[w].old_mode = current_mode /\ worker[w].new_mode # current_mode
        /\ (worker[w].pc \in {"call", "wait"} /\ worker[w].differed)
           => /\ current_mode = worker[w].new_mode
              /\ worker[w].old_mode # worker[w].new_mode

C29_Witness ==
    /\ mqtt_broker # "AUTO"
    /\ Len(calls) = 3
    /\ calls[1].old = OFFLINE /\ calls[1].new = BLE
    /\ calls[2].old = BLE /\ calls[2].new = MQTT
    /\ calls[3].old = MQTT /\ calls[3].new = OFFLINE
    /\ current_mode = OFFLINE

\* a worker stores the mode it evaluated (a tick of the monitor loop)
TickWrites == \E w \in Workers : worker[w].pc = "write" /\ worker'[w].pc # "write"
\* the caller's thread stores the mode handed to force_mode
ForceWrites == caller.op = "force_mode" /\ caller.pc = "write" /\ caller'.pc # "write"

\* C30: current_mode is OFFLINE after construction and changes only where a
\* tick of the monitor loop or force_mode stores it; check_connectivity,
\* start_monitoring, stop_monitoring and get_current_mode leave it as it is.
C30_WritersOfMode ==
    /\ current_mode = OFFLINE
    /\ [][current_mode' # current_mode => TickWrites \/ ForceWrites]_vars
    /\ [][(caller'.pc = "idle" /\ caller'.op = "get_current_mode" /\ caller' # caller)
            => caller'.mode = current_mode /\ current_mode' = current_mode]_vars

C30_Witness ==
    /\ caller.pc = "idle" /\ caller.op = "get_current_mode" /\ caller.mode = MQTT
    /\ current_mode = MQTT
    /\ probe.by = 0 /\ probe.mode = BLE
    /\ is_monitoring

(***************************************************************************)
(* Claims about the packets emitted and taken (SpecLife, SpecReplay).      *)
(***************************************************************************)
\* the message type an encode_* call puts in the header
TypeOf(op) ==
    CASE op = "encode_telemetry" -> TELEMETRY
      [] op = "encode_alert" -> ALERT
      [] op = "encode_heartbeat" -> HEARTBEAT
      [] op = "encode_command" -> COMMAND
      [] op = "encode_response" -> RESPONSE

\* C31: a packet returned by encode_* has version 1, the message type of
\* the call, the sequence_num of before the call as sequence byte, and flags
\* 0x04; a packet returned by create_key_exchange_packet has 69 bytes,
\* version 1, type 0x06, the sequence_num of before the call, flags 0x00,
\* and the call takes sequence_num one further mod 256.
C31_HeadersEmitted ==
    /\ (last.op \in EncodeOps /\ last.ok)
       => last.val.hdr = <<1, TypeOf(last.op), last.pre.sequence_num, 4>>
    /\ last.op = "create_key_exchange_packet"
       => /\ last.ok
          /\ last.val.len = 69
          /\ last.val.hdr = <<1, 6, last.pre.sequence_num, 0>>
          /\ sess[last.who].sequence_num = (last.pre.sequence_num + 1) % 256

C31_Witness ==
    /\ last.op = "create_key_exchange_packet"
    /\ last.pre.sequence_num = 2
    /\ last.val.hdr[3] = 2
    /\ wire.packet # NoPacket /\ wire.packet.hdr[4] = 4

\* the last call was decode_packet, by a session holding a key, on a packet
\* its peer emitted under that key, as sent
DecodedValid ==
    /\ last.op = "decode_packet"
    /\ last.how = NoHow /\ last.base.body.t = "sealed"
    /\ \E w \in {wire, wireBefore} : w.packet = last.base /\ w.sender = Peer(last.who)
    /\ last.pre.encryption.aes_key # {}
    /\ last.base.body.ct.key = last.pre.encryption.aes_key

\* C32: on a session holding a key decode_packet succeeds on a valid packet
\* every time it is applied to it, with the same result, and whatever the
\* order of the sequence bytes of the packets it is applied to; the
\* sequence byte is never a reason to reject.
C32_NoReplayNoOrder ==
    [][/\ DecodedValid' => last'.ok /\ last'.val.sequence = last'.base.hdr[3]
       /\ (DecodedValid /\ DecodedValid' /\ last'.who = last.who /\ last'.base = last.base)
          => last'.val = last.val]_vars

\* C33: an encode_* call that fails, as with key-not-established on a
\* session without a key, leaves sequence_num and the nonce counter as they
\* were; sequence_num moves only when a packet has been emitted.
C33_FailedEncodeChangesNothing ==
    (last.op \in EncodeOps /\ ~last.ok)
    => /\ sess[last.who].sequence_num = last.pre.sequence_num
       /\ sess[last.who].encryption.counter = last.pre.encryption.counter

(***************************************************************************)
(* Claims about the agent (SpecAgent).                                     *)
(***************************************************************************)
\* C35: every invocation of the agent's handlers returns to the monitor
\* worker, which keeps ticking, and once a handler has been invoked with new
\* mode MQTT and has returned, the agent has switched back: its main thread
\* is in run_mqtt_mode, connected.
C35_AgentSwitchesBack ==
    (agent.handled.h # "none" /\ agent.handled.new = MQTT) => agent.pc \in MqttPcs

\* C36: after the handler registered by run_mqtt_mode has been invoked for
\* a change to BLE, the MQTT loop publishes no more telemetry; after the
\* handler registered by run_ble_mode has been invoked for a change to
\* MQTT, the BLE loop makes no more send call.
C36_OneTransport ==
    [][/\ (agent.handled.h = OnMqtt /\ agent.handled.new = BLE)
          => agent'.published = agent.published
       /\ (agent.handled.h = OnBle /\ agent.handled.new = MQTT)
          => nCli' = nCli]_vars

(***************************************************************************)
(* Claims about what the server forwards (SpecSrv).                        *)
(***************************************************************************)
\* the message type of the characteristic callback op serves
ChannelType(op) ==
    IF op = "_on_telemetry_write" THEN "telemetry"
    ELSE IF op = "_on_alert_write" THEN "alert"
    ELSE IF op = "_on_response_write" THEN "response"
    ELSE "none"

=============================================================================
